---- MODULE Spec2Model ----
\* A model of the vclusterops operation engine: one pipeline of cluster
\* operations, each fanning a request out to its hosts through the adapter
\* pool, collecting one result per host and folding the results into an error
\* and into the shared execution context.
EXTENDS Integers, Sequences, FiniteSets, TLC

\* ---------------------------------------------------------------- bounds
\* Hosts are 1..MaxHosts; a pipeline runs at most MaxOps operations.
MaxHosts == 2
MaxOps == 2

Hosts == 1..MaxHosts

\* hasQuorum is tried on counts 0..MaxNodes
MaxNodes == 7

\* maskSensitiveInfo is tried on values with at most MaxParams parameters and
\* called on a value at most MaxMaskCalls times
MaxParams == 2
MaxMaskCalls == 2

\* ------------------------------------------------------- program constants
SuccessCode == 200
MultipleChoiceCode == 300
UnauthorizedCode == 401
InternalErrorCode == 500

SUCCESS == 0
FAILURE == 1
EXCEPTION == 2

GetMethod == "GET"
PostMethod == "POST"

maskedValue == "******"
sensitiveKeyParams == {"awsauth", "awssessiontoken", "gcsauth", "azurestoragecredentials"}

\* ------------------------------------------------------------------ errors
\* A Go error is modelled as the set of the per-host errors it wraps or joins;
\* nil is the empty set, errors.Join is union (errors.Join(nil, nil) = nil).
Nil == {}
Join(a, b) == a \cup b
HostErr(h, k) == {[host |-> h, kind |-> k, code |-> 0]}
StatusErr(h, c) == {[host |-> h, kind |-> "status", code |-> c]}

\* maps are functions over a finite key set
EmptyMap == [h \in {} |-> {}]
Put(m, k, v) == [x \in (DOMAIN m) \cup {k} |-> IF x = k THEN v ELSE m[x]]

\* every order in which a Go map with key set S can be ranged over
Orders(S) == {s \in [1..Cardinality(S) -> S] : \A i, j \in 1..Cardinality(S) : i # j => s[i] # s[j]}

\* ------------------------------------------------- responses of the hosts
\* What a host's service answers: a transport outcome, a status code and a
\* body. A body is a text, <<what it says, the host that wrote it>>; the
\* Decode operators are what decoding it as JSON yields.
GoodBody(h) == <<"good", h>>
MalformedBody == <<"garbage", 0>>
IncompleteBody(h) == <<"incomplete", h>>
OtherBody(h) == <<"other", h>>
\* a network profile written without the field f, or with f empty
ProfileFields == {"name", "address", "subnet", "netmask", "broadcast"}
MissingFieldBody(f, h) == <<f, h>>
ErrorBody(t) == <<t, 0>>

NoProfile == [Name |-> "", Address |-> "", Subnet |-> "", Netmask |-> "", Broadcast |-> <<>>]
GoodProfile(h) == [Name |-> "eth0", Address |-> "addr", Subnet |-> "subnet", Netmask |-> "mask", Broadcast |-> <<"bcast", h>>]
IncompleteProfile(h) == [GoodProfile(h) EXCEPT !.Broadcast = <<>>]
ProfileWithout(f, h) ==
    [Name |-> IF f = "name" THEN "" ELSE "eth0",
     Address |-> IF f = "address" THEN "" ELSE "addr",
     Subnet |-> IF f = "subnet" THEN "" ELSE "subnet",
     Netmask |-> IF f = "netmask" THEN "" ELSE "mask",
     Broadcast |-> IF f = "broadcast" THEN <<>> ELSE <<"bcast", h>>]

GoodSCList == <<[SCName |-> "default_subcluster", IsDefault |-> TRUE], [SCName |-> "sc1", IsDefault |-> FALSE]>>
NoDefaultSCList == <<[SCName |-> "sc1", IsDefault |-> FALSE]>>
\* the list of a database whose default subcluster is sc1
OtherSCList == <<[SCName |-> "sc2", IsDefault |-> FALSE], [SCName |-> "sc1", IsDefault |-> TRUE]>>

\* whether the body is a JSON document of the shape asked for
DecodeJSON(body) == body[1] \in {"good", "incomplete", "other"} \cup ProfileFields

\* the body decoded as a network profile
DecodeProfile(body) ==
    CASE body[1] = "good" -> GoodProfile(body[2])
      [] body[1] = "incomplete" -> IncompleteProfile(body[2])
      [] body[1] \in ProfileFields -> ProfileWithout(body[1], body[2])
      [] OTHER -> NoProfile

\* the body decoded as a subcluster list
DecodeSCList(body) ==
    CASE body[1] = "good" -> GoodSCList
      [] body[1] = "incomplete" -> NoDefaultSCList
      [] body[1] = "other" -> OtherSCList
      [] OTHER -> <<>>

\* the body decoded as a string map: the value under
\* "bootstrap_catalog_return_code", "missing" when the key is absent
DecodeReturnCode(body) == IF body[1] = "good" THEN "0" ELSE "missing"

Answer(c, b) == [transport |-> "ok", code |-> c, body |-> b]
TransportFailure(t) == [transport |-> t, code |-> 0, body |-> ErrorBody("")]

Responses(h) ==
    { Answer(SuccessCode, GoodBody(h)),
      Answer(SuccessCode + 1, GoodBody(h)),
      Answer(SuccessCode, MalformedBody),
      Answer(SuccessCode, IncompleteBody(h)),
      Answer(UnauthorizedCode, ErrorBody("Wrong password")),
      Answer(InternalErrorCode, ErrorBody("internal")),
      TransportFailure("timeout") }

\* ---------------------------------------------------------- hostHTTPResult
\* The adapter turns a host's response into a hostHTTPResult carrying the
\* adapter's own host: a transport failure is an EXCEPTION with an error, a 2xx
\* answer a SUCCESS with a nil error, any other answer a FAILURE with an error.
generateResult(adapterHost, resp) ==
    IF resp.transport # "ok"
    THEN [status |-> EXCEPTION, statusCode |-> 0, host |-> adapterHost,
          content |-> resp.body, err |-> HostErr(adapterHost, resp.transport)]
    ELSE IF resp.code >= SuccessCode /\ resp.code < MultipleChoiceCode
    THEN [status |-> SUCCESS, statusCode |-> resp.code, host |-> adapterHost,
          content |-> resp.body, err |-> Nil]
    ELSE [status |-> FAILURE, statusCode |-> resp.code, host |-> adapterHost,
          content |-> resp.body, err |-> StatusErr(adapterHost, resp.code)]

isUnauthorizedRequest(hostResult) == hostResult.statusCode = UnauthorizedCode
isSuccess(hostResult) == hostResult.statusCode = SuccessCode
\* isInternalError taking every 5xx for an internal error
isInternalErrorAnyServerError(hostResult) == hostResult.statusCode >= InternalErrorCode
isInternalError(hostResult) == hostResult.statusCode = InternalErrorCode
\* isPassing going by the status instead of the error
isPassingNotException(hostResult) == hostResult.status # EXCEPTION
isPassing(hostResult) == hostResult.err = Nil
isHTTPRunning(hostResult) ==
    isPassing(hostResult) \/ isUnauthorizedRequest(hostResult) \/ isInternalError(hostResult)

\* errors.As(err, &netErr) && netErr.Timeout(): the error is a transport timeout
isTimeout(hostResult) ==
    /\ hostResult.err # Nil
    /\ \E e \in hostResult.err : e.kind = "timeout"

\* A text is a sequence of words; strings.Contains is "holds as a run of words"
Contains(s, substr) ==
    \E i \in 0..(Len(s) - Len(substr)) : SubSeq(s, i + 1, i + Len(substr)) = substr

wrongCredentialErrMsg == <<(<<"Wrong", "password">>), (<<"Wrong", "certificate">>)>>

\* fmt.Sprintf("%v", hostResult) of the pointer: the fields in order, the texts
\* as they are, the error (an unexported field holding a pointer) as <nil> or
\* an address
ResultString(hostResult) ==
    <<"&{", ToString(hostResult.status), ToString(hostResult.statusCode)>>
        \o hostResult.host \o hostResult.content
        \o (IF hostResult.err = Nil THEN <<"<nil>">> ELSE <<"0xc000">>) \o <<"}">>

\* the loop of isPasswordAndCertificateError over wrongCredentialErrMsg
RECURSIVE matchesAny(_, _)
matchesAny(resultString, msgs) ==
    IF msgs = <<>> THEN FALSE
    ELSE IF Contains(resultString, Head(msgs)) THEN TRUE
    ELSE matchesAny(resultString, Tail(msgs))

\* isPasswordAndCertificateError looking for the first message only
isPasswordErrorOnly(hostResult) ==
    IF ~isUnauthorizedRequest(hostResult) THEN FALSE
    ELSE matchesAny(ResultString(hostResult), <<Head(wrongCredentialErrMsg)>>)

isPasswordAndCertificateError(hostResult) ==
    IF ~isUnauthorizedRequest(hostResult) THEN FALSE
    ELSE matchesAny(ResultString(hostResult), wrongCredentialErrMsg)

\* util.GetJSONLogErrors: decoding fails iff the content is not the JSON expected
GetJSONLogErrors(content) == ~DecodeJSON(content)

\* util.CheckMissingFields: an error iff some field of the decoded object is empty
CheckMissingFields(profile) ==
    \/ profile.Name = ""
    \/ profile.Address = ""
    \/ profile.Subnet = ""
    \/ profile.Netmask = ""
    \/ profile.Broadcast = <<>>

parseAndCheckResponse(host, responseContent) ==
    IF GetJSONLogErrors(responseContent) THEN HostErr(host, "parse") ELSE Nil

parseAndCheckMapResponse(host, responseContent) ==
    [responseObj |-> responseContent, err |-> parseAndCheckResponse(host, responseContent)]

\* an error of the operation as a whole, tied to no host
OpErr(k) == {[host |-> 0, kind |-> k, code |-> 0]}

\* ------------------------------------------------------------ processResult
\* Each processResult ranges over the result map in the order given (a Go map
\* has no order: the caller tries every one) and returns the error it returns.

RECURSIVE deleteDirProcessResultLoop(_, _, _)
deleteDirProcessResultLoop(order, results, allErrs) ==
    IF order = <<>> THEN allErrs
    ELSE LET host == Head(order)
             result == results[host]
         IN IF isPassing(result)
            THEN LET err == parseAndCheckMapResponse(host, result.content).err
                 IN deleteDirProcessResultLoop(Tail(order), results,
                        IF err # Nil THEN Join(allErrs, err) ELSE allErrs)
            ELSE deleteDirProcessResultLoop(Tail(order), results, Join(allErrs, result.err))

\* processResult keeping only the errors of the first host it ranges over
deleteDirProcessResultFirstHostOnly(order, results) ==
    [err |-> IF order = <<>> THEN Nil
             ELSE deleteDirProcessResultLoop(<<Head(order)>>, results, Nil)]

deleteDirProcessResult(order, results) ==
    [err |-> deleteDirProcessResultLoop(order, results, Nil)]

\* parseResponse without the check for empty fields
parseResponseUnchecked(host, resultContent) ==
    LET err == parseAndCheckResponse(host, resultContent)
    IN IF err # Nil THEN [profile |-> NoProfile, err |-> err]
       ELSE [profile |-> DecodeProfile(resultContent), err |-> Nil]

\* NMANetworkProfileOp.parseResponse
parseResponse(host, resultContent) ==
    LET err == parseAndCheckResponse(host, resultContent)
    IN IF err # Nil THEN [profile |-> NoProfile, err |-> err]
       ELSE [profile |-> DecodeProfile(resultContent),
             err |-> IF CheckMissingFields(DecodeProfile(resultContent))
                     THEN HostErr(host, "missingField") ELSE Nil]

\* returns the error and the networkProfiles slot of the context afterwards
RECURSIVE networkProfileProcessResultLoop(_, _, _, _, _)
networkProfileProcessResultLoop(order, results, allErrs, allNetProfiles, oldProfiles) ==
    IF order = <<>> THEN [err |-> allErrs, networkProfiles |-> allNetProfiles]
    ELSE LET host == Head(order)
             result == results[host]
         IN IF isPassing(result)
            THEN LET parsed == parseResponse(host, result.content)
                 IN IF parsed.err # Nil
                    THEN [err |-> parsed.err, networkProfiles |-> oldProfiles]
                    ELSE networkProfileProcessResultLoop(Tail(order), results, allErrs,
                             Put(allNetProfiles, host, parsed.profile), oldProfiles)
            ELSE networkProfileProcessResultLoop(Tail(order), results,
                     Join(allErrs, result.err), allNetProfiles, oldProfiles)

\* processResult adding the new profiles to the ones the context holds
networkProfileProcessResultMerging(order, results, oldProfiles) ==
    networkProfileProcessResultLoop(order, results, Nil, oldProfiles, oldProfiles)

networkProfileProcessResult(order, results, oldProfiles) ==
    networkProfileProcessResultLoop(order, results, Nil, EmptyMap, oldProfiles)

\* the inner loop leaving as soon as the named subcluster is found
RECURSIVE scanSCInfoListUntilNamed(_, _, _, _, _)
scanSCInfoListUntilNamed(list, scName, foundNamedSc, foundDefaultSc, defaultSCName) ==
    IF list = <<>> \/ foundNamedSc
    THEN [foundNamedSc |-> foundNamedSc, foundDefaultSc |-> foundDefaultSc,
          defaultSCName |-> defaultSCName]
    ELSE LET scInfo == Head(list)
         IN scanSCInfoListUntilNamed(Tail(list), scName,
                foundNamedSc \/ scInfo.SCName = scName,
                foundDefaultSc \/ scInfo.IsDefault,
                IF scInfo.IsDefault THEN scInfo.SCName ELSE defaultSCName)

\* the inner loop of HTTPSFindSubclusterOp.processResult over scResp.SCInfoList
RECURSIVE scanSCInfoList(_, _, _, _, _)
scanSCInfoList(list, scName, foundNamedSc, foundDefaultSc, defaultSCName) ==
    IF list = <<>> \/ (foundNamedSc /\ foundDefaultSc)
    THEN [foundNamedSc |-> foundNamedSc, foundDefaultSc |-> foundDefaultSc,
          defaultSCName |-> defaultSCName]
    ELSE LET scInfo == Head(list)
         IN scanSCInfoList(Tail(list), scName,
                foundNamedSc \/ scInfo.SCName = scName,
                foundDefaultSc \/ scInfo.IsDefault,
                IF scInfo.IsDefault THEN scInfo.SCName ELSE defaultSCName)

\* returns the error and the defaultSCName slot of the context afterwards
RECURSIVE findSubclusterProcessResultLoop(_, _, _, _, _, _)
findSubclusterProcessResultLoop(order, results, allErrs, defaultSCName, scName, ignoreNotFound) ==
    IF order = <<>> THEN [err |-> allErrs, defaultSCName |-> defaultSCName]
    ELSE LET host == Head(order)
             result == results[host]
         IN IF isUnauthorizedRequest(result)
            THEN [err |-> result.err, defaultSCName |-> defaultSCName]
            ELSE IF ~isPassing(result)
            THEN findSubclusterProcessResultLoop(Tail(order), results,
                     Join(allErrs, result.err), defaultSCName, scName, ignoreNotFound)
            ELSE LET err == parseAndCheckResponse(host, result.content)
                     scan == scanSCInfoList(DecodeSCList(result.content), scName, FALSE, FALSE, defaultSCName)
                 IN IF err # Nil
                    THEN [err |-> Join(allErrs, err), defaultSCName |-> defaultSCName]
                    ELSE IF scName # "" /\ ~ignoreNotFound /\ ~scan.foundNamedSc
                    THEN [err |-> Join(allErrs, OpErr("subclusterNotFound")),
                          defaultSCName |-> scan.defaultSCName]
                    ELSE IF ~scan.foundDefaultSc
                    THEN [err |-> Join(allErrs, OpErr("noDefaultSubcluster")),
                          defaultSCName |-> scan.defaultSCName]
                    ELSE [err |-> Nil, defaultSCName |-> scan.defaultSCName]

\* processResult going on to the next host when the name is not in a host's list
RECURSIVE findSubclusterProcessResultLoopAllHosts(_, _, _, _, _, _)
findSubclusterProcessResultLoopAllHosts(order, results, allErrs, defaultSCName, scName, ignoreNotFound) ==
    IF order = <<>> THEN [err |-> allErrs, defaultSCName |-> defaultSCName]
    ELSE LET host == Head(order)
             result == results[host]
         IN IF isUnauthorizedRequest(result)
            THEN [err |-> result.err, defaultSCName |-> defaultSCName]
            ELSE IF ~isPassing(result)
            THEN findSubclusterProcessResultLoopAllHosts(Tail(order), results,
                     Join(allErrs, result.err), defaultSCName, scName, ignoreNotFound)
            ELSE LET err == parseAndCheckResponse(host, result.content)
                     scan == scanSCInfoList(DecodeSCList(result.content), scName, FALSE, FALSE, defaultSCName)
                 IN IF err # Nil
                    THEN [err |-> Join(allErrs, err), defaultSCName |-> defaultSCName]
                    ELSE IF scName # "" /\ ~ignoreNotFound /\ ~scan.foundNamedSc
                    THEN findSubclusterProcessResultLoopAllHosts(Tail(order), results,
                             Join(allErrs, OpErr("subclusterNotFound")), scan.defaultSCName,
                             scName, ignoreNotFound)
                    ELSE IF ~scan.foundDefaultSc
                    THEN [err |-> Join(allErrs, OpErr("noDefaultSubcluster")),
                          defaultSCName |-> scan.defaultSCName]
                    ELSE [err |-> Nil, defaultSCName |-> scan.defaultSCName]

findSubclusterProcessResultAllHosts(order, results, defaultSCName, scName, ignoreNotFound) ==
    findSubclusterProcessResultLoopAllHosts(order, results, Nil, defaultSCName, scName, ignoreNotFound)

\* processResult checking for the name whatever ignoreNotFound says
findSubclusterProcessResultAlwaysChecksName(order, results, defaultSCName, scName, ignoreNotFound) ==
    findSubclusterProcessResultLoop(order, results, Nil, defaultSCName, scName, FALSE)

\* processResult taking an unauthorized result for any other failed result:
\* its error joins the others and the next host is looked at
findSubclusterProcessResultNoShortCircuit(order, results, defaultSCName, scName, ignoreNotFound) ==
    findSubclusterProcessResultLoop(order,
        [h \in DOMAIN results |->
            IF isUnauthorizedRequest(results[h])
            THEN [results[h] EXCEPT !.statusCode = UnauthorizedCode + 2]
            ELSE results[h]],
        Nil, defaultSCName, scName, ignoreNotFound)

findSubclusterProcessResult(order, results, defaultSCName, scName, ignoreNotFound) ==
    findSubclusterProcessResultLoop(order, results, Nil, defaultSCName, scName, ignoreNotFound)

RECURSIVE scrutinizeTarProcessResultLoop(_, _, _)
scrutinizeTarProcessResultLoop(order, results, allErrs) ==
    IF order = <<>> THEN allErrs
    ELSE LET host == Head(order)
             result == results[host]
         IN IF isPassing(result)
            THEN scrutinizeTarProcessResultLoop(Tail(order), results, allErrs)
            ELSE IF isInternalError(result)
            THEN scrutinizeTarProcessResultLoop(Tail(order), results, allErrs)
            ELSE scrutinizeTarProcessResultLoop(Tail(order), results, Join(allErrs, result.err))

\* processResult taking a 500 for an error like any other
RECURSIVE scrutinizeTarProcessResultLoopStrict(_, _, _)
scrutinizeTarProcessResultLoopStrict(order, results, allErrs) ==
    IF order = <<>> THEN allErrs
    ELSE LET result == results[Head(order)]
         IN scrutinizeTarProcessResultLoopStrict(Tail(order), results,
                IF isPassing(result) THEN allErrs ELSE Join(allErrs, result.err))

scrutinizeTarProcessResultStrict(order, results) ==
    [err |-> scrutinizeTarProcessResultLoopStrict(order, results, Nil)]

scrutinizeTarProcessResult(order, results) ==
    [err |-> scrutinizeTarProcessResultLoop(order, results, Nil)]

\* NMABootstrapCatalogOp.processResult: success is a flag, not an error list
RECURSIVE bootstrapCatalogProcessResultLoop(_, _, _)
bootstrapCatalogProcessResultLoop(order, results, success) ==
    IF order = <<>> THEN success
    ELSE LET host == Head(order)
             result == results[host]
         IN IF isPassing(result)
            THEN LET parsed == parseAndCheckMapResponse(host, result.content)
                 IN bootstrapCatalogProcessResultLoop(Tail(order), results,
                        success /\ parsed.err = Nil /\ DecodeReturnCode(parsed.responseObj) = "0")
            ELSE bootstrapCatalogProcessResultLoop(Tail(order), results, FALSE)

bootstrapCatalogProcessResult(order, results) ==
    [err |-> IF bootstrapCatalogProcessResultLoop(order, results, TRUE)
             THEN Nil ELSE OpErr("bootstrapCatalogFailed")]

\* ------------------------------------------------------- sensitive fields
\* strings.ToLower on the configuration-parameter keys the model uses
ToLower(key) ==
    CASE key = "AWSAuth" -> "awsauth"
      [] key = "GCSAuth" -> "gcsauth"
      [] key = "GCSAUTH" -> "gcsauth"
      [] key = "AzureStorageCredentials" -> "azurestoragecredentials"
      [] key = "AWSAuthority" -> "awsauthority"
      [] OTHER -> key

\* maskSensitiveInfo looking the key up as it is written
maskSensitiveInfoExactCase(maskedData) ==
    [DBPassword |-> maskedValue,
     AWSAccessKeyID |-> maskedValue,
     AWSSecretAccessKey |-> maskedValue,
     Parameters |-> [key \in DOMAIN maskedData.Parameters |->
                        IF key \in sensitiveKeyParams
                        THEN maskedValue ELSE maskedData.Parameters[key]]]

\* maskSensitiveInfo clearing a credential that reads as the placeholder already
maskSensitiveInfoClearsMasked(maskedData) ==
    [DBPassword |-> IF maskedData.DBPassword = maskedValue THEN "" ELSE maskedValue,
     AWSAccessKeyID |-> maskedValue,
     AWSSecretAccessKey |-> maskedValue,
     Parameters |-> [key \in DOMAIN maskedData.Parameters |->
                        IF ToLower(key) \in sensitiveKeyParams
                        THEN maskedValue ELSE maskedData.Parameters[key]]]

\* maskSensitiveInfo on a sensitiveFields value whose Parameters map holds
\* `parameters`; the result's Parameters is what that same map holds afterwards
\* (the method writes into the map it was given, it does not copy it).
maskSensitiveInfo(maskedData) ==
    [DBPassword |-> maskedValue,
     AWSAccessKeyID |-> maskedValue,
     AWSSecretAccessKey |-> maskedValue,
     Parameters |-> [key \in DOMAIN maskedData.Parameters |->
                        IF ToLower(key) \in sensitiveKeyParams
                        THEN maskedValue ELSE maskedData.Parameters[key]]]

\* --------------------------------------------------- NMABootstrapCatalogOp
\* The values the caller's options and database carry.
OptionsPassword == "dbpassword"
VdbAwsIDKey == "awsid"
VdbAwsSecretKey == "awssecret"

\* A bootstrapCatalogRequestData has a Parameters field of its own and embeds
\* the sensitive fields, whose Parameters field it hides: SensitiveFieldsParameters
\* is that hidden field. Both hold a map by reference: "options" is the caller's
\* options.ConfigurationParameters (the variable configParams), "nil" the nil
\* map of a zero value.
ZeroRequestData ==
    [Host |-> 0, BroadcastAddr |-> <<>>, Parameters |-> "nil", DBPassword |-> "",
     AWSAccessKeyID |-> "", AWSSecretAccessKey |-> "", SensitiveFieldsParameters |-> "nil"]

\* setupRequestBody with the caller's map assigned to the embedded Parameters too
setupRequestBodySharedParameters(hosts) ==
    [host \in hosts |->
        [Host |-> host, BroadcastAddr |-> <<>>, Parameters |-> "options",
         DBPassword |-> OptionsPassword, AWSAccessKeyID |-> VdbAwsIDKey,
         AWSSecretAccessKey |-> VdbAwsSecretKey, SensitiveFieldsParameters |-> "options"]]

\* bootstrapData.Parameters = options.ConfigurationParameters sets the field of
\* the request data itself; the embedded one stays nil
setupRequestBody(hosts) ==
    [host \in hosts |->
        [Host |-> host, BroadcastAddr |-> <<>>, Parameters |-> "options",
         DBPassword |-> OptionsPassword, AWSAccessKeyID |-> VdbAwsIDKey,
         AWSSecretAccessKey |-> VdbAwsSecretKey, SensitiveFieldsParameters |-> "nil"]]

\* the map a Parameters reference points at
Deref(ref, params) == IF ref = "options" THEN params ELSE [k \in {} |-> ""]

\* json.Marshal of a request body: the values it holds at this moment; of the
\* two fields tagged "parameters" the less nested one is written
Marshal(requestBody, params) ==
    [Host |-> requestBody.Host,
     BroadcastAddr |-> requestBody.BroadcastAddr,
     Parameters |-> Deref(requestBody.Parameters, params),
     DBPassword |-> requestBody.DBPassword,
     AWSAccessKeyID |-> requestBody.AWSAccessKeyID,
     AWSSecretAccessKey |-> requestBody.AWSSecretAccessKey]

\* the loop of updateRequestBody over execContext.networkProfiles, in `order`;
\* params is what options.ConfigurationParameters holds
\* (maskedMap is the local maskedRequestBodyMap that is logged at the end)
RECURSIVE updateRequestBodyLoop(_, _, _, _, _, _)
updateRequestBodyLoop(order, profiles, bodyMap, marshaledMap, maskedMap, params) ==
    IF order = <<>>
    THEN [hostRequestBodyMap |-> bodyMap, marshaledRequestBodyMap |-> marshaledMap,
          maskedRequestBodyMap |-> maskedMap, configParams |-> params, err |-> Nil]
    ELSE LET host == Head(order)
             old == IF host \in DOMAIN bodyMap THEN bodyMap[host] ELSE ZeroRequestData
             requestBody == [old EXCEPT !.BroadcastAddr = profiles[host].Broadcast]
             dataBytes == Marshal(requestBody, params)
             \* maskedData := requestBody copies the struct, not the maps it
             \* points at; the method is the embedded sensitive fields' one
             maskedData == maskSensitiveInfo(
                               [DBPassword |-> requestBody.DBPassword,
                                AWSAccessKeyID |-> requestBody.AWSAccessKeyID,
                                AWSSecretAccessKey |-> requestBody.AWSSecretAccessKey,
                                Parameters |-> Deref(requestBody.SensitiveFieldsParameters, params)])
         IN updateRequestBodyLoop(Tail(order), profiles,
                Put(bodyMap, host, requestBody),
                Put(marshaledMap, host, dataBytes),
                Put(maskedMap, host,
                    [requestBody EXCEPT !.DBPassword = maskedData.DBPassword,
                                        !.AWSAccessKeyID = maskedData.AWSAccessKeyID,
                                        !.AWSSecretAccessKey = maskedData.AWSSecretAccessKey]),
                IF requestBody.SensitiveFieldsParameters = "options"
                THEN maskedData.Parameters ELSE params)

\* updateRequestBody giving every host the broadcast address of the first
\* profile it ranges over
updateRequestBodyFirstBroadcast(order, profiles, bodyMap, params) ==
    updateRequestBodyLoop(order,
        [h \in DOMAIN profiles |-> profiles[IF order = <<>> THEN h ELSE Head(order)]],
        bodyMap, EmptyMap, EmptyMap, params)

\* updateRequestBody masking the request bodies of the operation themselves
updateRequestBodyMasksInPlace(order, profiles, bodyMap, params) ==
    LET u == updateRequestBodyLoop(order, profiles, bodyMap, EmptyMap, EmptyMap, params)
    IN [u EXCEPT !.hostRequestBodyMap = u.maskedRequestBodyMap]

updateRequestBody(order, profiles, bodyMap, params) ==
    updateRequestBodyLoop(order, profiles, bodyMap, EmptyMap, EmptyMap, params)

\* ------------------------------------------------------------- dispatcher
\* setup with every adapter given the host of the first one
setupOneHostForAll(hosts) ==
    [host \in hosts |-> [host |-> CHOOSE m \in hosts : \A x \in hosts : m <= x, download |-> FALSE]]

\* setup with each adapter given the host of its neighbour
setupNeighbourHost(hosts) ==
    [host \in hosts |->
        [host |-> IF \E x \in hosts : x > host
                  THEN CHOOSE x \in hosts : x > host /\ \A y \in hosts : y > host => x <= y
                  ELSE CHOOSE m \in hosts : \A x \in hosts : m <= x,
         download |-> FALSE]]

\* HTTPRequestDispatcher.setup: a fresh connection map, one adapter per host
setup(hosts) == [host \in hosts |-> [host |-> host, download |-> FALSE]]

\* setupForDownload filing one and the same adapter under every host
setupForDownloadOneAdapter(connections, hosts) ==
    [host \in (DOMAIN connections) \cup hosts |->
        IF host \in hosts
        THEN [host |-> CHOOSE m \in hosts : \A x \in hosts : x <= m, download |-> TRUE]
        ELSE connections[host]]

\* HTTPRequestDispatcher.setupForDownload: adds to the pool's connection map
setupForDownload(connections, hosts) ==
    [host \in (DOMAIN connections) \cup hosts |->
        IF host \in hosts THEN [host |-> host, download |-> TRUE] ELSE connections[host]]

\* the pool sending to the hosts that have a request, whatever it was set up for
poolSendRequestSkipsMissing(connections, requestCollection) ==
    IF DOMAIN requestCollection = {} THEN OpErr("emptyRequestCollection") ELSE Nil

\* AdapterPool.sendRequest before it sends anything: the dispatch-level errors
poolSendRequest(connections, requestCollection) ==
    IF DOMAIN requestCollection = {} THEN OpErr("emptyRequestCollection")
    ELSE IF \E host \in DOMAIN connections : host \notin DOMAIN requestCollection
    THEN OpErr("hostWithoutRequest")
    ELSE IF \E host \in DOMAIN requestCollection : host \notin DOMAIN connections
    THEN OpErr("hostWithoutAdapter")
    ELSE Nil

\* sendRequest returning nil whatever the pool returned
sendRequestNoError(connections, requestCollection) == Nil

\* HTTPRequestDispatcher.sendRequest hands the request to the pool
sendRequest(connections, requestCollection) == poolSendRequest(connections, requestCollection)

\* runExecute dropping the dispatcher's error
runExecuteDropsError(connections, requestCollection) == Nil

\* opBase.runExecute returns the dispatcher's error
runExecute(connections, requestCollection) ==
    LET err == sendRequest(connections, requestCollection)
    IN IF err # Nil THEN err ELSE Nil

\* execute dropping what processResult returned
executeDropsProcessResult(runExecuteErr, processResultErr) ==
    IF runExecuteErr # Nil THEN runExecuteErr ELSE Nil

\* what execute returns, given what runExecute and processResult returned
execute(runExecuteErr, processResultErr) ==
    IF runExecuteErr # Nil THEN runExecuteErr ELSE processResultErr

\* isSkipExecute ignoring the flag
isSkipExecuteNever(skipExecute) == FALSE

isSkipExecute(skipExecute) == skipExecute

\* hasQuorum wanting half of the primary nodes, rounded down
hasQuorumHalf(hostCount, primaryNodeCount) ==
    LET quorumCount == primaryNodeCount \div 2
    IN ~(hostCount < quorumCount)

\* opBase.hasQuorum; the counts are unsigned and far below the width of uint
hasQuorum(hostCount, primaryNodeCount) ==
    LET quorumCount == (primaryNodeCount + 1) \div 2
    IN IF hostCount < quorumCount THEN FALSE ELSE TRUE

\* ------------------------------------------------------------- operations
DeleteDirectoriesOp == "NMADeleteDirectoriesOp"
NetworkProfileOp == "NMANetworkProfileOp"
FindSubclusterOp == "HTTPSFindSubclusterOp"
GetScrutinizeTarOp == "NMAGetScrutinizeTarOp"
BootstrapCatalogOp == "NMABootstrapCatalogOp"
\* an operation that decides in prepare that no work is needed, or that the
\* data it needs is absent (cluster_op.go names nma_upload_config.go)
UploadConfigOp == "NMAUploadConfigOp"

MakeOp(k, hs, sc, ign, out) ==
    [kind |-> k, hosts |-> hs, scName |-> sc, ignoreNotFound |-> ign, prepareOutcome |-> out]

Ops ==
    {MakeOp(k, hs, "", FALSE, "ok") :
        k \in {DeleteDirectoriesOp, NetworkProfileOp, GetScrutinizeTarOp, BootstrapCatalogOp},
        hs \in SUBSET Hosts}
    \cup {MakeOp(FindSubclusterOp, hs, sc, FALSE, "ok") : hs \in SUBSET Hosts, sc \in {"sc1", "sc2"}}
    \cup {MakeOp(UploadConfigOp, Hosts, "", FALSE, out) : out \in {"ok", "skip", "fail"}}

\* opBase.setupBasicInfo: an empty request collection (and no results yet)
setupBasicInfo == [RequestCollection |-> EmptyMap, ResultCollection |-> EmptyMap]

HostHTTPRequest(method, endpoint, data) ==
    [Method |-> method, Endpoint |-> endpoint, RequestData |-> data]

\* setupClusterHTTPRequest of each operation, adding to requestCollection
deleteDirSetupClusterHTTPRequest(requestCollection, hosts) ==
    [host \in (DOMAIN requestCollection) \cup hosts |->
        IF host \in hosts
        THEN HostHTTPRequest(PostMethod, "directories/delete", <<[directories |-> host]>>)
        ELSE requestCollection[host]]

networkProfileSetupClusterHTTPRequest(requestCollection, hosts) ==
    [host \in (DOMAIN requestCollection) \cup hosts |->
        IF host \in hosts
        THEN HostHTTPRequest(GetMethod, "network-profiles", <<[hint |-> host]>>)
        ELSE requestCollection[host]]

findSubclusterSetupClusterHTTPRequest(requestCollection, hosts) ==
    [host \in (DOMAIN requestCollection) \cup hosts |->
        IF host \in hosts
        THEN HostHTTPRequest(GetMethod, "subclusters", <<>>)
        ELSE requestCollection[host]]

scrutinizeSetupClusterHTTPRequest(requestCollection, hosts) ==
    [host \in (DOMAIN requestCollection) \cup hosts |->
        IF host \in hosts
        THEN HostHTTPRequest(GetMethod, "scrutinize", <<>>)
        ELSE requestCollection[host]]

uploadConfigSetupClusterHTTPRequest(requestCollection, hosts) ==
    [host \in (DOMAIN requestCollection) \cup hosts |->
        IF host \in hosts
        THEN HostHTTPRequest(PostMethod, "catalog/config", <<>>)
        ELSE requestCollection[host]]

\* setupClusterHTTPRequest making a request for each marshaled body instead
bootstrapCatalogSetupMarshaledOnly(hosts, marshaledMap) ==
    [host \in DOMAIN marshaledMap |->
        HostHTTPRequest(PostMethod, "catalog/bootstrap", <<marshaledMap[host]>>)]

\* NMABootstrapCatalogOp.setupClusterHTTPRequest starts from a new collection;
\* a host without a marshaled body gets the empty string
bootstrapCatalogSetupClusterHTTPRequest(hosts, marshaledMap) ==
    [host \in hosts |->
        HostHTTPRequest(PostMethod, "catalog/bootstrap",
            IF host \in DOMAIN marshaledMap THEN <<marshaledMap[host]>> ELSE <<>>)]

\* prepare of each operation: the pool, the request collection and the error
deleteDirPrepare(hosts, requestCollection) ==
    [connections |-> setup(hosts),
     requestCollection |-> deleteDirSetupClusterHTTPRequest(requestCollection, hosts),
     err |-> Nil]

networkProfilePrepare(hosts, requestCollection) ==
    [connections |-> setup(hosts),
     requestCollection |-> networkProfileSetupClusterHTTPRequest(requestCollection, hosts),
     err |-> Nil]

findSubclusterPrepare(hosts, requestCollection) ==
    [connections |-> setup(hosts),
     requestCollection |-> findSubclusterSetupClusterHTTPRequest(requestCollection, hosts),
     err |-> Nil]

scrutinizeTarPrepare(hosts, requestCollection, connections) ==
    [connections |-> setupForDownload(connections, hosts),
     requestCollection |-> scrutinizeSetupClusterHTTPRequest(requestCollection, hosts),
     err |-> Nil]

\* NMABootstrapCatalogOp.Prepare; `order` is the order in which updateRequestBody
\* ranges over execContext.networkProfiles
bootstrapCatalogPrepare(hosts, order, connections, profiles, bodyMap, params) ==
    LET u == updateRequestBody(order, profiles, bodyMap, params)
    IN IF u.err # Nil
       THEN [connections |-> connections, requestCollection |-> EmptyMap, err |-> u.err,
             hostRequestBodyMap |-> u.hostRequestBodyMap,
             marshaledRequestBodyMap |-> u.marshaledRequestBodyMap,
             configParams |-> u.configParams]
       ELSE [connections |-> setup(hosts),
             requestCollection |->
                 bootstrapCatalogSetupClusterHTTPRequest(hosts, u.marshaledRequestBodyMap),
             err |-> Nil,
             hostRequestBodyMap |-> u.hostRequestBodyMap,
             marshaledRequestBodyMap |-> u.marshaledRequestBodyMap,
             configParams |-> u.configParams]

\* An operation that finds in prepare that the data it needs is absent (a
\* configuration error), or that no work is needed (the skip flag).
uploadConfigPrepare(hosts, requestCollection, connections, outcome) ==
    IF outcome = "fail"
    THEN [connections |-> connections, requestCollection |-> requestCollection,
          skipExecute |-> FALSE, err |-> OpErr("configuration")]
    ELSE [connections |-> setup(hosts),
          requestCollection |-> uploadConfigSetupClusterHTTPRequest(requestCollection, hosts),
          skipExecute |-> (outcome = "skip"), err |-> Nil]

\* clusterOp.prepare, after setupBasicInfo: everything prepare of operation o
\* leaves behind
prepare(o, order, connections, profiles, bodyMap, params) ==
    LET base == setupBasicInfo.RequestCollection
        plain(p) == [connections |-> p.connections, requestCollection |-> p.requestCollection,
                     skipExecute |-> FALSE, err |-> p.err, hostRequestBodyMap |-> EmptyMap,
                     marshaledRequestBodyMap |-> EmptyMap, configParams |-> params]
    IN CASE o.kind = DeleteDirectoriesOp -> plain(deleteDirPrepare(o.hosts, base))
         [] o.kind = NetworkProfileOp -> plain(networkProfilePrepare(o.hosts, base))
         [] o.kind = FindSubclusterOp -> plain(findSubclusterPrepare(o.hosts, base))
         [] o.kind = GetScrutinizeTarOp -> plain(scrutinizeTarPrepare(o.hosts, base, connections))
         [] o.kind = BootstrapCatalogOp ->
              LET p == bootstrapCatalogPrepare(o.hosts, order, connections, profiles, bodyMap, params)
              IN [plain(p) EXCEPT !.hostRequestBodyMap = p.hostRequestBodyMap,
                                  !.marshaledRequestBodyMap = p.marshaledRequestBodyMap,
                                  !.configParams = p.configParams]
         [] o.kind = UploadConfigOp ->
              LET p == uploadConfigPrepare(o.hosts, base, connections, o.prepareOutcome)
              IN [plain(p) EXCEPT !.skipExecute = p.skipExecute]

\* processResult of the operation of uploadConfigPrepare: the joined errors
\* of the hosts that failed
RECURSIVE uploadConfigProcessResultLoop(_, _, _)
uploadConfigProcessResultLoop(order, results, allErrs) ==
    IF order = <<>> THEN allErrs
    ELSE LET result == results[Head(order)]
         IN uploadConfigProcessResultLoop(Tail(order), results,
                IF isPassing(result) THEN allErrs ELSE Join(allErrs, result.err))

uploadConfigProcessResult(order, results) ==
    [err |-> uploadConfigProcessResultLoop(order, results, Nil)]

\* processResult with NMADeleteDirectoriesOp storing an empty profile map
processResultDeleteDirStoresProfiles(o, order, results, profiles, defaultSC) ==
    LET keep == [err |-> Nil, networkProfiles |-> profiles, defaultSCName |-> defaultSC]
    IN CASE o.kind = DeleteDirectoriesOp ->
              [keep EXCEPT !.err = deleteDirProcessResult(order, results).err,
                           !.networkProfiles = EmptyMap]
         [] o.kind = NetworkProfileOp ->
              LET r == networkProfileProcessResult(order, results, profiles)
              IN [keep EXCEPT !.err = r.err, !.networkProfiles = r.networkProfiles]
         [] o.kind = FindSubclusterOp ->
              LET r == findSubclusterProcessResult(order, results, defaultSC, o.scName, o.ignoreNotFound)
              IN [keep EXCEPT !.err = r.err, !.defaultSCName = r.defaultSCName]
         [] o.kind = GetScrutinizeTarOp ->
              [keep EXCEPT !.err = scrutinizeTarProcessResult(order, results).err]
         [] o.kind = BootstrapCatalogOp ->
              [keep EXCEPT !.err = bootstrapCatalogProcessResult(order, results).err]
         [] o.kind = UploadConfigOp ->
              [keep EXCEPT !.err = uploadConfigProcessResult(order, results).err]

\* processResult of operation o over the result map, in `order`: the error and
\* the two context slots afterwards
processResult(o, order, results, profiles, defaultSC) ==
    LET keep == [err |-> Nil, networkProfiles |-> profiles, defaultSCName |-> defaultSC]
    IN CASE o.kind = DeleteDirectoriesOp ->
              [keep EXCEPT !.err = deleteDirProcessResult(order, results).err]
         [] o.kind = NetworkProfileOp ->
              LET r == networkProfileProcessResult(order, results, profiles)
              IN [keep EXCEPT !.err = r.err, !.networkProfiles = r.networkProfiles]
         [] o.kind = FindSubclusterOp ->
              LET r == findSubclusterProcessResult(order, results, defaultSC, o.scName, o.ignoreNotFound)
              IN [keep EXCEPT !.err = r.err, !.defaultSCName = r.defaultSCName]
         [] o.kind = GetScrutinizeTarOp ->
              [keep EXCEPT !.err = scrutinizeTarProcessResult(order, results).err]
         [] o.kind = BootstrapCatalogOp ->
              [keep EXCEPT !.err = bootstrapCatalogProcessResult(order, results).err]
         [] o.kind = UploadConfigOp ->
              [keep EXCEPT !.err = uploadConfigProcessResult(order, results).err]

\* ------------------------------------------------------------------ state
VARIABLES
    idx,                     \* position in the instruction list of the running operation
    op,                      \* the running operation
    pc,                      \* where the engine stands
    skipExecute,             \* op.skipExecute
    connections,             \* the adapter pool: host -> adapter
    requestCollection,       \* op.clusterHTTPRequest.RequestCollection
    resultCollection,        \* op.clusterHTTPRequest.ResultCollection
    inflight,                \* hosts whose request is on the wire
    answered,                \* what each host answered in this dispatch
    networkProfiles,         \* execContext.networkProfiles
    defaultSCName,           \* execContext.defaultSCName
    configParams,            \* options.ConfigurationParameters now
    hostRequestBodyMap,      \* NMABootstrapCatalogOp.hostRequestBodyMap
    marshaledRequestBodyMap, \* NMABootstrapCatalogOp.marshaledRequestBodyMap
    dispatchErr,             \* what sendRequest returned for the running operation
    procErr,                 \* what processResult returned for the running operation
    runErr,                  \* what the pipeline run returns
    log,                     \* the lifecycle calls made so far: <<position, phase>>
    hostCount,               \* hasQuorum's first argument
    primaryNodeCount,        \* hasQuorum's second argument
    quorum,                  \* <<what hasQuorum returned>>, <<>> before the call
    hostResult,              \* a hostHTTPResult handed to the classification methods
    classification,          \* <<what the methods returned>>, <<>> before the calls
    findOp,                  \* an HTTPSFindSubclusterOp with its results, and the context it is given
    findReturn,              \* <<what its processResult returned and left in the context>>
    profileOp,               \* an NMANetworkProfileOp with its results, and the context it is given
    profileReturn,           \* <<what its processResult returned and left in the context>>
    sensitive,               \* a sensitiveFields value
    unmasked,                \* that value before maskSensitiveInfo was first called on it
    maskCalls                \* how often maskSensitiveInfo has been called on it

\* the engine, its dispatcher and the running operation
engineVars == <<idx, op, pc, skipExecute, connections, requestCollection, resultCollection,
                inflight, answered, networkProfiles, defaultSCName, configParams,
                hostRequestBodyMap, marshaledRequestBodyMap, dispatchErr, procErr, runErr, log>>
\* the arguments and the result of a call of hasQuorum
quorumVars == <<hostCount, primaryNodeCount, quorum>>
\* the receiver and the results of a call of the classification methods
classifyVars == <<hostResult, classification>>
\* the receiver, the context and the result of a call of processResult of
\* HTTPSFindSubclusterOp
findVars == <<findOp, findReturn>>
\* the same for NMANetworkProfileOp
profileVars == <<profileOp, profileReturn>>
\* the receiver of the calls of maskSensitiveInfo
maskVars == <<sensitive, unmasked, maskCalls>>

vars == <<engineVars, quorumVars, classifyVars, findVars, profileVars, maskVars>>

\* options.ConfigurationParameters as the caller supplies it: a credential
\* under a deny-listed key (in mixed case) and an ordinary parameter
OptionsConfigurationParameters ==
    [key \in {"AWSAuth", "kerberosrealm"} |-> IF key = "AWSAuth" THEN "id:secret" ELSE "realm"]

NoOp == MakeOp("none", {}, "", FALSE, "ok")

\* the engine before its first operation
EngineInit ==
    /\ idx = 0
    /\ op = NoOp
    /\ pc = "next"
    /\ skipExecute = FALSE
    /\ connections = EmptyMap
    /\ requestCollection = EmptyMap
    /\ resultCollection = EmptyMap
    /\ inflight = {}
    /\ answered = EmptyMap
    /\ networkProfiles = EmptyMap
    /\ defaultSCName = ""
    /\ configParams = OptionsConfigurationParameters
    /\ hostRequestBodyMap = EmptyMap
    /\ marshaledRequestBodyMap = EmptyMap
    /\ dispatchErr = Nil
    /\ procErr = Nil
    /\ runErr = Nil
    /\ log = <<>>

\* no call of hasQuorum is under way
QuorumIdle ==
    /\ hostCount = 0
    /\ primaryNodeCount = 0
    /\ quorum = <<>>

\* a result as the zero value of hostHTTPResult, its texts sequences of words
ZeroHostResult == [status |-> SUCCESS, statusCode |-> 0, host |-> <<>>, content |-> <<>>, err |-> Nil]

\* no call of a classification method is under way
ClassifyIdle ==
    /\ hostResult = ZeroHostResult
    /\ classification = <<>>

\* no call of processResult of HTTPSFindSubclusterOp outside the pipeline
FindIdle ==
    /\ findOp = <<>>
    /\ findReturn = <<>>

\* no call of processResult of NMANetworkProfileOp outside the pipeline
ProfileIdle ==
    /\ profileOp = <<>>
    /\ profileReturn = <<>>

\* a sensitiveFields zero value nothing is called on
MaskIdle ==
    /\ sensitive = <<>>
    /\ unmasked = <<>>
    /\ maskCalls = 0

Init == EngineInit /\ QuorumIdle /\ ClassifyIdle /\ FindIdle /\ ProfileIdle /\ MaskIdle

\* the engine going on to execute although prepare returned an error
PrepareIgnoringError(o, order) ==
    /\ pc = "next"
    /\ idx < MaxOps
    /\ LET body == IF o.kind = BootstrapCatalogOp THEN setupRequestBody(o.hosts) ELSE EmptyMap
           p == prepare(o, order, connections, networkProfiles, body, configParams)
       IN /\ connections' = p.connections
          /\ requestCollection' = p.requestCollection
          /\ skipExecute' = p.skipExecute
          /\ hostRequestBodyMap' = p.hostRequestBodyMap
          /\ marshaledRequestBodyMap' = p.marshaledRequestBodyMap
          /\ configParams' = p.configParams
          /\ runErr' = Nil
          /\ pc' = "prepared"
    /\ idx' = idx + 1
    /\ op' = o
    /\ resultCollection' = setupBasicInfo.ResultCollection
    /\ inflight' = {}
    /\ answered' = EmptyMap
    /\ dispatchErr' = Nil
    /\ procErr' = Nil
    /\ log' = Append(log, <<idx + 1, "prepare">>)
    /\ UNCHANGED <<networkProfiles, defaultSCName>>
    /\ UNCHANGED <<quorumVars, classifyVars, findVars, profileVars, maskVars>>

\* The engine takes the next operation of the list (any operation: the list is
\* the caller's), calls setupBasicInfo and prepare, and returns prepare's error.
Prepare(o, order) ==
    /\ pc = "next"
    /\ idx < MaxOps
    /\ LET body == IF o.kind = BootstrapCatalogOp THEN setupRequestBody(o.hosts) ELSE EmptyMap
           p == prepare(o, order, connections, networkProfiles, body, configParams)
       IN /\ connections' = p.connections
          /\ requestCollection' = p.requestCollection
          /\ skipExecute' = p.skipExecute
          /\ hostRequestBodyMap' = p.hostRequestBodyMap
          /\ marshaledRequestBodyMap' = p.marshaledRequestBodyMap
          /\ configParams' = p.configParams
          /\ runErr' = p.err
          /\ pc' = IF p.err # Nil THEN "returned" ELSE "prepared"
    /\ idx' = idx + 1
    /\ op' = o
    /\ resultCollection' = setupBasicInfo.ResultCollection
    /\ inflight' = {}
    /\ answered' = EmptyMap
    /\ dispatchErr' = Nil
    /\ procErr' = Nil
    /\ log' = Append(log, <<idx + 1, "prepare">>)
    /\ UNCHANGED <<networkProfiles, defaultSCName>>
    /\ UNCHANGED <<quorumVars, classifyVars, findVars, profileVars, maskVars>>

\* The engine honours the skip flag: no execute, straight to finalize.
SkipExecute ==
    /\ pc = "prepared"
    /\ isSkipExecute(skipExecute)
    /\ pc' = "finalize"
    /\ UNCHANGED <<idx, op, skipExecute, connections, requestCollection, resultCollection,
                   inflight, answered, networkProfiles, defaultSCName, configParams,
                   hostRequestBodyMap, marshaledRequestBodyMap, dispatchErr, procErr, runErr, log>>
    /\ UNCHANGED <<quorumVars, classifyVars, findVars, profileVars, maskVars>>

\* execute: runExecute hands the requests to the dispatcher. A dispatch-level
\* error ends execute and the run; otherwise one request per host goes out.
Execute ==
    /\ pc = "prepared"
    /\ ~isSkipExecute(skipExecute)
    /\ LET sendErr == sendRequest(connections, requestCollection)
           err == runExecute(connections, requestCollection)
       IN /\ dispatchErr' = sendErr
          /\ inflight' = IF sendErr = Nil THEN DOMAIN requestCollection ELSE {}
          /\ IF err # Nil
             THEN pc' = "returned" /\ runErr' = execute(err, Nil)
             ELSE pc' = "dispatching" /\ runErr' = runErr
    /\ log' = Append(log, <<idx, "sendRequest">>)
    /\ UNCHANGED <<idx, op, skipExecute, connections, requestCollection, resultCollection,
                   answered, networkProfiles, defaultSCName, configParams,
                   hostRequestBodyMap, marshaledRequestBodyMap, procErr>>
    /\ UNCHANGED <<quorumVars, classifyVars, findVars, profileVars, maskVars>>

\* One host's request completes, in any order among the hosts: its adapter
\* makes the result and the pool files it under the result's host.
HostRespond(h, resp) ==
    /\ pc = "dispatching"
    /\ h \in inflight
    /\ LET result == generateResult(connections[h].host, resp)
       IN resultCollection' = Put(resultCollection, result.host, result)
    /\ inflight' = inflight \ {h}
    /\ answered' = Put(answered, h, resp)
    /\ UNCHANGED <<idx, op, pc, skipExecute, connections, requestCollection,
                   networkProfiles, defaultSCName, configParams,
                   hostRequestBodyMap, marshaledRequestBodyMap, dispatchErr, procErr, runErr, log>>
    /\ UNCHANGED <<quorumVars, classifyVars, findVars, profileVars, maskVars>>

\* the pool waiting again for every host whose request timed out
ProcessResultBlockedByTimeout(order) ==
    /\ pc = "dispatching"
    /\ inflight = {}
    /\ \E h \in DOMAIN resultCollection : isTimeout(resultCollection[h])
    /\ UNCHANGED vars

\* All results are in: sendRequest returns and execute runs processResult,
\* which ranges over the result map in some order.
ProcessResult(order) ==
    /\ pc = "dispatching"
    /\ inflight = {}
    /\ LET r == processResult(op, order, resultCollection, networkProfiles, defaultSCName)
           err == execute(Nil, r.err)
       IN /\ procErr' = r.err
          /\ networkProfiles' = r.networkProfiles
          /\ defaultSCName' = r.defaultSCName
          /\ runErr' = err
          /\ pc' = IF err # Nil THEN "returned" ELSE "finalize"
    /\ log' = Append(log, <<idx, "processResult">>)
    /\ UNCHANGED <<idx, op, skipExecute, connections, requestCollection, resultCollection,
                   inflight, answered, configParams,
                   hostRequestBodyMap, marshaledRequestBodyMap, dispatchErr>>
    /\ UNCHANGED <<quorumVars, classifyVars, findVars, profileVars, maskVars>>

\* finalize of every operation here returns nil; the engine moves on.
Finalize ==
    /\ pc = "finalize"
    /\ pc' = "next"
    /\ log' = Append(log, <<idx, "finalize">>)
    /\ UNCHANGED <<idx, op, skipExecute, connections, requestCollection, resultCollection,
                   inflight, answered, networkProfiles, defaultSCName, configParams,
                   hostRequestBodyMap, marshaledRequestBodyMap, dispatchErr, procErr, runErr>>
    /\ UNCHANGED <<quorumVars, classifyVars, findVars, profileVars, maskVars>>

\* The list is exhausted: the run returns nil.
Return ==
    /\ pc = "next"
    /\ pc' = "returned"
    /\ runErr' = Nil
    /\ UNCHANGED <<idx, op, skipExecute, connections, requestCollection, resultCollection,
                   inflight, answered, networkProfiles, defaultSCName, configParams,
                   hostRequestBodyMap, marshaledRequestBodyMap, dispatchErr, procErr, log>>
    /\ UNCHANGED <<quorumVars, classifyVars, findVars, profileVars, maskVars>>

Next ==
    \/ /\ pc = "next"
       /\ \E o \in Ops :
             \E order \in (IF o.kind = BootstrapCatalogOp
                           THEN Orders(DOMAIN networkProfiles) ELSE {<<>>}) :
                Prepare(o, order)
    \/ SkipExecute
    \/ Execute
    \/ /\ pc = "dispatching"
       /\ \E h \in inflight : \E resp \in Responses(h) : HostRespond(h, resp)
    \/ /\ pc = "dispatching"
       /\ inflight = {}
       /\ \E order \in Orders(DOMAIN resultCollection) : ProcessResult(order)
    \/ Finalize
    \/ Return

Spec == Init /\ [][Next]_vars

\* The engine runs on one goroutine that is never suspended for good, and the
\* claim's premise is that every request on the wire gets a response or a
\* transport timeout: weak fairness of the engine's steps and of the hosts'.
EngineStep ==
    \/ \E o \in Ops :
          \E order \in (IF o.kind = BootstrapCatalogOp
                        THEN Orders(DOMAIN networkProfiles) ELSE {<<>>}) :
             Prepare(o, order)
    \/ SkipExecute
    \/ Execute
    \/ \E order \in Orders(DOMAIN resultCollection) : ProcessResult(order)
    \/ Finalize
    \/ Return

HostStep == \E h \in inflight : \E resp \in Responses(h) : HostRespond(h, resp)

FairSpec == Init /\ [][Next]_vars /\ WF_vars(EngineStep) /\ WF_vars(HostStep)

\* ------------------------------------------------------- calls of hasQuorum
\* An operation calls hasQuorum with the count of hosts that hold the latest
\* catalog and the count of primary nodes: any two counts up to MaxNodes.
QuorumInit ==
    /\ EngineInit
    /\ ClassifyIdle
    /\ FindIdle
    /\ ProfileIdle
    /\ MaskIdle
    /\ hostCount \in 0..MaxNodes
    /\ primaryNodeCount \in 0..MaxNodes
    /\ quorum = <<>>

CallHasQuorum ==
    /\ quorum = <<>>
    /\ quorum' = <<hasQuorum(hostCount, primaryNodeCount)>>
    /\ UNCHANGED <<hostCount, primaryNodeCount, engineVars, classifyVars, findVars, profileVars, maskVars>>

QuorumNext == CallHasQuorum

QuorumSpec == QuorumInit /\ [][QuorumNext]_vars

\* ------------------------------------------ calls of the classification methods
\* The methods are called on any hostHTTPResult whatever: every status, a
\* choice of status codes, texts and errors, consistent with one another or not.
StatusCodes ==
    {0, SuccessCode, SuccessCode + 1, UnauthorizedCode, UnauthorizedCode + 3,
     InternalErrorCode, InternalErrorCode + 3}

Texts ==
    {<<"Wrong", "password">>, <<"Wrong", "certificate">>, <<"Wrong">>, <<"password">>,
     <<"certificate", "Wrong">>, <<"not", "joined">>}

HostResults ==
    [status : {SUCCESS, FAILURE, EXCEPTION},
     statusCode : StatusCodes,
     host : {<<"host1">>, <<"Wrong">>},
     content : Texts,
     err : {Nil, HostErr(0, "timeout"), StatusErr(0, UnauthorizedCode)}]

ClassifyInit ==
    /\ EngineInit
    /\ QuorumIdle
    /\ FindIdle
    /\ ProfileIdle
    /\ MaskIdle
    /\ hostResult \in HostResults
    /\ classification = <<>>

\* every classification method is called on the result; a method has the
\* result as its receiver and writes nothing to it
Classify ==
    /\ classification = <<>>
    /\ classification' =
          <<[isUnauthorizedRequest |-> isUnauthorizedRequest(hostResult),
             isSuccess |-> isSuccess(hostResult),
             isPasswordAndCertificateError |-> isPasswordAndCertificateError(hostResult),
             isInternalError |-> isInternalError(hostResult),
             isHTTPRunning |-> isHTTPRunning(hostResult),
             isPassing |-> isPassing(hostResult),
             isTimeout |-> isTimeout(hostResult)]>>
    /\ hostResult' = hostResult
    /\ UNCHANGED <<engineVars, quorumVars, findVars, profileVars, maskVars>>

ClassifyNext == Classify

ClassifySpec == ClassifyInit /\ [][ClassifyNext]_vars

\* ------------------------- calls of processResult of HTTPSFindSubclusterOp
\* What a host may have answered to the subclusters request
FindResponses(h) ==
    { Answer(SuccessCode, GoodBody(h)),
      Answer(SuccessCode, OtherBody(h)),
      Answer(SuccessCode, IncompleteBody(h)),
      Answer(SuccessCode, MalformedBody),
      Answer(UnauthorizedCode, ErrorBody("Wrong password")),
      Answer(InternalErrorCode, ErrorBody("internal")),
      TransportFailure("timeout") }

\* every result collection of a dispatch to the hosts hs
FindResults(hs) ==
    {[h \in hs |-> generateResult(h, answer[h])] :
        answer \in {a \in [hs -> UNION {FindResponses(h) : h \in hs}] :
                        \A h \in hs : a[h] \in FindResponses(h)}}

\* makeHTTPSFindSubclusterOp with any name and flag, over any hosts, after a
\* dispatch that ended in any way; the context holds a default name or none
FindInit ==
    /\ EngineInit
    /\ QuorumIdle
    /\ ClassifyIdle
    /\ ProfileIdle
    /\ MaskIdle
    /\ findOp \in {[scName |-> sc, ignoreNotFound |-> ign, results |-> rs, defaultSCName |-> def] :
                       sc \in {"", "sc1", "sc2"}, ign \in BOOLEAN,
                       rs \in UNION {FindResults(hs) : hs \in SUBSET Hosts},
                       def \in {"", "old_default"}}
    /\ findReturn = <<>>

\* processResult ranges over the result collection in some order
CallFindProcessResult(order) ==
    /\ findOp # <<>>
    /\ findReturn = <<>>
    /\ LET r == findSubclusterProcessResult(order, findOp.results, findOp.defaultSCName,
                                            findOp.scName, findOp.ignoreNotFound)
       IN findReturn' = <<[order |-> order, err |-> r.err, defaultSCName |-> r.defaultSCName]>>
    /\ UNCHANGED <<findOp, engineVars, quorumVars, classifyVars, profileVars, maskVars>>

FindNext == \E order \in Orders(DOMAIN findOp.results) : CallFindProcessResult(order)

FindSpec == FindInit /\ [][FindNext]_vars

\* --------------------------- calls of processResult of NMANetworkProfileOp
\* What a host may have answered to the network-profiles request: a full
\* profile, a profile without one of its fields, no JSON at all, or a failure
ProfileResponses(h) ==
    {Answer(SuccessCode, GoodBody(h)), Answer(SuccessCode, MalformedBody),
     Answer(InternalErrorCode, ErrorBody("internal"))}
    \cup {Answer(SuccessCode, MissingFieldBody(f, h)) : f \in ProfileFields}

ProfileResults(hs) ==
    {[h \in hs |-> generateResult(h, answer[h])] :
        answer \in {a \in [hs -> UNION {ProfileResponses(h) : h \in hs}] :
                        \A h \in hs : a[h] \in ProfileResponses(h)}}

\* an NMANetworkProfileOp over any hosts after a dispatch that ended in any
\* way; the context holds no profiles yet or those of an earlier operation
ProfileInit ==
    /\ EngineInit
    /\ QuorumIdle
    /\ ClassifyIdle
    /\ FindIdle
    /\ MaskIdle
    /\ profileOp \in {[results |-> rs, networkProfiles |-> old] :
                          rs \in UNION {ProfileResults(hs) : hs \in SUBSET Hosts},
                          old \in {EmptyMap, [h \in Hosts |-> GoodProfile(h)]}}
    /\ profileReturn = <<>>

CallProfileProcessResult(order) ==
    /\ profileOp # <<>>
    /\ profileReturn = <<>>
    /\ LET r == networkProfileProcessResult(order, profileOp.results, profileOp.networkProfiles)
       IN profileReturn' = <<[order |-> order, err |-> r.err, networkProfiles |-> r.networkProfiles]>>
    /\ UNCHANGED <<profileOp, engineVars, quorumVars, classifyVars, findVars, maskVars>>

ProfileNext == \E order \in Orders(DOMAIN profileOp.results) : CallProfileProcessResult(order)

ProfileSpec == ProfileInit /\ [][ProfileNext]_vars

\* ------------------------------------------- calls of maskSensitiveInfo
\* The keys a Parameters map is given: deny-listed names in several letter
\* cases, a name that only starts like one, and an ordinary one
ParameterKeys ==
    {"AWSAuth", "awssessiontoken", "GCSAUTH", "AzureStorageCredentials",
     "AWSAuthority", "kerberosrealm"}

ParameterMaps ==
    UNION {[keys -> {"value", maskedValue}] :
              keys \in {ks \in SUBSET ParameterKeys : Cardinality(ks) <= MaxParams}}

\* every sensitiveFields value: credentials set or not, any parameters (a nil
\* map ranges as an empty one)
SensitiveFieldsValues ==
    [DBPassword : {"", "dbpassword", maskedValue},
     AWSAccessKeyID : {"", "awsid"},
     AWSSecretAccessKey : {"awssecret"},
     Parameters : ParameterMaps]

MaskInit ==
    /\ EngineInit
    /\ QuorumIdle
    /\ ClassifyIdle
    /\ FindIdle
    /\ ProfileIdle
    /\ sensitive \in SensitiveFieldsValues
    /\ unmasked = sensitive
    /\ maskCalls = 0

\* maskSensitiveInfo has a pointer receiver: it rewrites the value in place
CallMaskSensitiveInfo ==
    /\ sensitive # <<>>
    /\ maskCalls < MaxMaskCalls
    /\ sensitive' = maskSensitiveInfo(sensitive)
    /\ maskCalls' = maskCalls + 1
    /\ UNCHANGED <<unmasked, engineVars, quorumVars, classifyVars, findVars, profileVars>>

MaskNext == CallMaskSensitiveInfo

MaskSpec == MaskInit /\ [][MaskNext]_vars

\* ------------------------------------------------------------------ claims
LastCall == IF log = <<>> THEN <<0, "none">> ELSE log[Len(log)]
Called(i, phase) == \E k \in 1..Len(log) : log[k] = <<i, phase>>
\* processResult of the running operation has run and its results are still there
Processed == Called(idx, "processResult")
Failing(h) == ~isPassing(resultCollection[h])

\* C1: when execute of the running operation fails (its dispatch or its
\* processResult returns an error), the run has returned exactly that error,
\* the failing call is the last lifecycle call ever made and no call of a
\* later operation exists.
C1_ShortCircuit ==
    (dispatchErr # Nil \/ procErr # Nil) =>
        /\ pc = "returned"
        /\ runErr = (IF dispatchErr # Nil THEN dispatchErr ELSE procErr)
        /\ LastCall \in {<<idx, "sendRequest">>, <<idx, "processResult">>}
        /\ \A k \in 1..Len(log) : log[k][1] <= idx

C1_Witness ==
    /\ procErr # Nil
    /\ pc = "returned"
    /\ idx < MaxOps
    /\ LastCall = <<idx, "processResult">>

\* C2: the lifecycle calls form one sequence: operation 1's prepare comes
\* first, an operation's calls go prepare, sendRequest, processResult, finalize
\* (execute may be left out), the next operation's prepare follows the
\* finalize of the one before, requests are on the wire only between
\* sendRequest and processResult of the running operation, and processResult
\* runs only after a dispatch that returned no error with every result in.
C2_TotalOrder ==
    /\ log # <<>> => log[1] = <<1, "prepare">>
    /\ \A k \in 1..(Len(log) - 1) :
          LET a == log[k]
              b == log[k + 1]
          IN \/ /\ b[1] = a[1]
                /\ <<a[2], b[2]>> \in {<<"prepare", "sendRequest">>, <<"prepare", "finalize">>,
                                        <<"sendRequest", "processResult">>,
                                        <<"processResult", "finalize">>}
             \/ /\ b[1] = a[1] + 1
                /\ a[2] = "finalize"
                /\ b[2] = "prepare"
    /\ LastCall[1] = idx
    /\ inflight # {} => pc = "dispatching" /\ LastCall = <<idx, "sendRequest">>
    /\ Processed => dispatchErr = Nil /\ inflight = {}

C2_Witness ==
    /\ Len(log) >= 5
    /\ log[4] = <<1, "finalize">>
    /\ log[5] = <<2, "prepare">>

\* C3: an operation whose skip flag is set when prepare returns gets no
\* sendRequest and no processResult, no request of it reaches a host, and the
\* run goes on to its finalize and beyond without an error.
C3_SkipExecute ==
    skipExecute =>
        /\ ~Called(idx, "sendRequest")
        /\ ~Called(idx, "processResult")
        /\ inflight = {}
        /\ answered = EmptyMap
        /\ resultCollection = EmptyMap
        /\ pc \in {"prepared", "finalize", "next", "returned"}
        /\ pc = "returned" => runErr = Nil /\ LastCall = <<idx, "finalize">>

C3_Witness ==
    /\ Len(log) >= 3
    /\ log[2] = <<1, "finalize">>
    /\ log[3] = <<2, "prepare">>
    /\ pc = "prepared"

\* C4: during a dispatch every host of the request map is either still on the
\* wire or has answered, never both; and once sendRequest has returned without
\* an error the result map has exactly the keys of the request map.
C4_DispatchComplete ==
    /\ pc = "dispatching" =>
          /\ inflight \cap DOMAIN answered = {}
          /\ inflight \cup DOMAIN answered = DOMAIN requestCollection
    /\ (Called(idx, "sendRequest") /\ dispatchErr = Nil /\ inflight = {}) =>
          /\ DOMAIN resultCollection = DOMAIN requestCollection
          /\ DOMAIN answered = DOMAIN requestCollection

C4_Witness ==
    /\ pc = "dispatching"
    /\ inflight = {}
    /\ Cardinality(DOMAIN requestCollection) >= 2
    /\ DOMAIN resultCollection = DOMAIN requestCollection

\* C5: at every moment of a dispatch, each host that has answered has its
\* result in the result map, and that result is the one its own answer
\* determines, whatever the other hosts answered or have yet to answer.
C5_HostIsolation ==
    \A h \in DOMAIN answered :
        /\ h \in DOMAIN resultCollection
        /\ resultCollection[h] = generateResult(h, answered[h])

C5_Witness ==
    \E a, b \in DOMAIN answered :
        /\ a # b
        /\ answered[a] \in {TransportFailure("timeout"), Answer(InternalErrorCode, ErrorBody("internal"))}
        /\ answered[b] = Answer(SuccessCode, GoodBody(b))
        /\ isPassing(resultCollection[b])

\* C6 as claimed: after processResult of any of the four operations, one
\* failing host makes the returned error non-nil, in every traversal order.
C6_NoFailureSwallowed ==
    (/\ Processed
     /\ op.kind \in {DeleteDirectoriesOp, NetworkProfileOp, FindSubclusterOp, GetScrutinizeTarOp}
     /\ \E h \in DOMAIN resultCollection : Failing(h))
        => procErr # Nil

\* C6 as amended: in every traversal order, delete directories and network
\* profile return an error when one host failed; the tarball download when one
\* host failed with anything but a 500; find subcluster when no host passed.
C6_FailureSurfaces ==
    Processed =>
        /\ (/\ op.kind \in {DeleteDirectoriesOp, NetworkProfileOp}
            /\ \E h \in DOMAIN resultCollection : Failing(h))
              => procErr # Nil
        /\ (/\ op.kind = GetScrutinizeTarOp
            /\ \E h \in DOMAIN resultCollection :
                  Failing(h) /\ ~isInternalError(resultCollection[h]))
              => procErr # Nil
        /\ (/\ op.kind = FindSubclusterOp
            /\ DOMAIN resultCollection # {}
            /\ \A h \in DOMAIN resultCollection : Failing(h))
              => procErr # Nil

C6_Witness ==
    /\ Processed
    /\ op.kind = DeleteDirectoriesOp
    /\ \E a, b \in DOMAIN resultCollection : Failing(a) /\ ~Failing(b)
    /\ procErr # Nil

HostFailed(h) ==
    \/ Failing(h)
    \/ /\ op.kind \in {DeleteDirectoriesOp, NetworkProfileOp, FindSubclusterOp}
       /\ GetJSONLogErrors(resultCollection[h].content)
    \/ /\ op.kind = NetworkProfileOp
       /\ CheckMissingFields(DecodeProfile(resultCollection[h].content))

\* C8 as claimed: the error processResult returns holds an error of every
\* host that failed, in every traversal order.
C8_EveryFailingHostListed ==
    (/\ Processed
     /\ op.kind \in {DeleteDirectoriesOp, NetworkProfileOp, FindSubclusterOp, GetScrutinizeTarOp})
        => \A h \in DOMAIN resultCollection :
              HostFailed(h) => \E e \in procErr : e.host = h

\* C9 as claimed: a catalog bootstrap one of whose hosts has no network
\* profile in the context fails in prepare, and nothing is dispatched.
C9_MissingProfileFailsPrepare ==
    (/\ op.kind = BootstrapCatalogOp
     /\ idx >= 1
     /\ \E h \in op.hosts : h \notin DOMAIN networkProfiles)
        => /\ pc = "returned"
           /\ runErr # Nil
           /\ LastCall = <<idx, "prepare">>
           /\ inflight = {}
           /\ answered = EmptyMap

\* C10: when prepare of the running operation returns an error, the run has
\* returned that error, prepare was called once and is the last call ever
\* made, execute was not called, no request went out and no later operation
\* has been touched.
PrepareFails == op.kind = UploadConfigOp /\ op.prepareOutcome = "fail" /\ idx >= 1

C10_PrepareErrorAborts ==
    PrepareFails =>
        /\ pc = "returned"
        /\ runErr = OpErr("configuration")
        /\ LastCall = <<idx, "prepare">>
        /\ Cardinality({k \in 1..Len(log) : log[k] = <<idx, "prepare">>}) = 1
        /\ ~Called(idx, "sendRequest")
        /\ inflight = {}
        /\ answered = EmptyMap
        /\ \A k \in 1..Len(log) : log[k][1] <= idx

C10_Witness ==
    /\ PrepareFails
    /\ idx < MaxOps
    /\ pc = "returned"

\* C11 as claimed: hasQuorum returns true exactly when the host count is at
\* least half of the primary node count, rounded down, plus one.
C11_QuorumFormula ==
    quorum # <<>> => (quorum[1] <=> hostCount >= (primaryNodeCount \div 2) + 1)

C13_ClassificationPure ==
    /\ [](classification # <<>> =>
            /\ classification[1].isUnauthorizedRequest <=> hostResult.statusCode = 401
            /\ classification[1].isInternalError <=> hostResult.statusCode = 500
            /\ classification[1].isPassing <=> hostResult.err = {}
            /\ classification[1].isHTTPRunning <=>
                  (hostResult.err = {} \/ hostResult.statusCode = 401 \/ hostResult.statusCode = 500))
    /\ [][hostResult' = hostResult]_vars

C13_Witness ==
    /\ classification # <<>>
    /\ hostResult.statusCode = 500
    /\ hostResult.err # {}
    /\ classification[1].isHTTPRunning
    /\ ~classification[1].isPassing

\* C15: isPasswordAndCertificateError returns true exactly when the status
\* code is 401 and the result's text holds "Wrong password" or "Wrong
\* certificate"; a 401 without either and every other status code give false.
C15_CredentialFailure ==
    classification # <<>> =>
        (classification[1].isPasswordAndCertificateError <=>
            /\ hostResult.statusCode = 401
            /\ \/ Contains(ResultString(hostResult), <<"Wrong", "password">>)
               \/ Contains(ResultString(hostResult), <<"Wrong", "certificate">>))

C15_Witness ==
    /\ classification # <<>>
    /\ hostResult.statusCode = 401
    /\ hostResult.content = <<"Wrong", "certificate">>
    /\ classification[1].isPasswordAndCertificateError

\* C14 as claimed: on every result a dispatch produced, passing excludes
\* unauthorized and internal error, and isPassing and isSuccess agree.
C14_PassingIffSuccess ==
    \A h \in DOMAIN resultCollection :
        LET result == resultCollection[h]
        IN /\ ~(isPassing(result) /\ isUnauthorizedRequest(result))
           /\ ~(isPassing(result) /\ isInternalError(result))
           /\ isPassing(result) <=> isSuccess(result)

\* C14 as amended: on every result a dispatch produced, passing excludes
\* unauthorized and internal error, and a result that isSuccess is passing.
C14_ClassificationConsistent ==
    \A h \in DOMAIN resultCollection :
        LET result == resultCollection[h]
        IN /\ ~(isPassing(result) /\ isUnauthorizedRequest(result))
           /\ ~(isPassing(result) /\ isInternalError(result))
           /\ isSuccess(result) => isPassing(result)

C14_Witness ==
    \E a, b \in DOMAIN resultCollection :
        /\ isPassing(resultCollection[a]) /\ ~isSuccess(resultCollection[a])
        /\ isUnauthorizedRequest(resultCollection[b]) /\ ~isPassing(resultCollection[b])

\* C16: sendRequest returns an error when the request map is empty and nil
\* when the map is not empty and has a request for exactly the hosts the pool
\* was set up for, whatever the hosts then answer: a host's timeout or non-2xx
\* answer is in its result and the dispatch error names no host.
C16_DispatchErrorOnlyForSetup ==
    Called(idx, "sendRequest") =>
        /\ DOMAIN requestCollection = {} => dispatchErr # Nil
        /\ (DOMAIN requestCollection # {} /\ DOMAIN connections = DOMAIN requestCollection)
              => dispatchErr = Nil
        /\ \A e \in dispatchErr : e.host = 0
        /\ \A h \in DOMAIN answered :
              (answered[h].transport # "ok" \/ answered[h].code >= 300) =>
                  /\ dispatchErr = Nil
                  /\ resultCollection[connections[h].host].err # Nil

C16_Witness ==
    /\ pc = "dispatching"
    /\ inflight = {}
    /\ dispatchErr = Nil
    /\ \E a, b \in DOMAIN answered :
          /\ answered[a] = TransportFailure("timeout")
          /\ answered[b] = Answer(InternalErrorCode, ErrorBody("internal"))

\* C17: once prepare of a delete-directories, network-profile, find-subcluster
\* or catalog-bootstrap operation has returned, the keys of its request
\* collection are exactly the hosts of the operation, whatever the context holds.
C17_OneRequestPerHost ==
    (/\ idx >= 1
     /\ op.kind \in {DeleteDirectoriesOp, NetworkProfileOp, FindSubclusterOp, BootstrapCatalogOp})
        => DOMAIN requestCollection = op.hosts

C17_Witness ==
    /\ op.kind = BootstrapCatalogOp
    /\ pc = "prepared"
    /\ Cardinality(op.hosts) >= 2
    /\ \E h \in op.hosts : h \notin DOMAIN networkProfiles
    /\ \E h \in op.hosts : h \in DOMAIN networkProfiles
    /\ DOMAIN requestCollection = op.hosts

\* C18: when sendRequest is handed a request map without a request for a host
\* the pool was set up for, it returns an error, no request goes to any host
\* and the run returns that error.
C18_MissingRequestFailsFast ==
    (/\ Called(idx, "sendRequest")
     /\ \E host \in DOMAIN connections : host \notin DOMAIN requestCollection)
        => /\ dispatchErr # Nil
           /\ inflight = {}
           /\ answered = EmptyMap
           /\ resultCollection = EmptyMap
           /\ pc = "returned"
           /\ runErr = dispatchErr

C18_Witness ==
    /\ Called(idx, "sendRequest")
    /\ requestCollection # EmptyMap
    /\ \E host \in DOMAIN connections : host \notin DOMAIN requestCollection
    /\ dispatchErr # Nil
    /\ pc = "returned"

\* C19: every dispatch ends (sendRequest returns), a request on the wire beside
\* one that timed out still completes, and the run over the operation list
\* returns.
C19_Termination ==
    /\ (pc = "dispatching") ~> (pc # "dispatching")
    /\ \A b \in Hosts :
          (b \in inflight /\ \E a \in DOMAIN answered : answered[a] = TransportFailure("timeout"))
              ~> (b \notin inflight)
    /\ <>(pc = "returned")

C19_Witness ==
    /\ pc = "returned"
    /\ \E a \in DOMAIN answered : \E b \in DOMAIN answered :
          /\ a # b
          /\ answered[a] = TransportFailure("timeout")
          /\ isTimeout(resultCollection[a])
          /\ answered[b] # TransportFailure("timeout")

\* C20: when HTTPSFindSubclusterOp.processResult comes to a host whose result
\* is unauthorized it returns that host's error at once: whatever the hosts
\* after it in the traversal answered makes no difference to what it returns,
\* and the default subcluster name in the context stays as it was. In the run,
\* with an unauthorized host and no passing one, the error of processResult is
\* the error of one unauthorized host alone.
C20_UnauthorizedShortCircuit ==
    /\ (pc = "dispatching" /\ inflight = {} /\ op.kind = FindSubclusterOp) =>
          \A order \in Orders(DOMAIN resultCollection) :
             \A k \in 1..Len(order) :
                LET reached ==
                        /\ isUnauthorizedRequest(resultCollection[order[k]])
                        /\ \A j \in 1..(k - 1) :
                              /\ ~isUnauthorizedRequest(resultCollection[order[j]])
                              /\ ~isPassing(resultCollection[order[j]])
                    r == findSubclusterProcessResult(order, resultCollection, defaultSCName,
                                                     op.scName, op.ignoreNotFound)
                    laterHosts == {order[j] : j \in (k + 1)..Len(order)}
                IN reached =>
                      /\ r.err = resultCollection[order[k]].err
                      /\ r.defaultSCName = defaultSCName
                      /\ \A later \in [laterHosts -> UNION {Responses(h) : h \in Hosts}] :
                            findSubclusterProcessResult(order,
                                [h \in DOMAIN resultCollection |->
                                    IF h \in laterHosts
                                    THEN generateResult(h, later[h])
                                    ELSE resultCollection[h]],
                                defaultSCName, op.scName, op.ignoreNotFound) = r
    /\ (/\ LastCall = <<idx, "processResult">>
        /\ op.kind = FindSubclusterOp
        /\ \E h \in DOMAIN resultCollection : isUnauthorizedRequest(resultCollection[h])
        /\ \A h \in DOMAIN resultCollection : ~isPassing(resultCollection[h])) =>
          /\ \E h \in DOMAIN resultCollection :
                /\ isUnauthorizedRequest(resultCollection[h])
                /\ procErr = resultCollection[h].err
          /\ runErr = procErr
          /\ pc = "returned"

\* processResult returned the unauthorized host's error although another host
\* had answered well, and another run had a failed host beside the
\* unauthorized one
C20_Witness ==
    /\ LastCall = <<idx, "processResult">>
    /\ op.kind = FindSubclusterOp
    /\ \E a \in DOMAIN resultCollection : \E b \in DOMAIN resultCollection :
          /\ a # b
          /\ isUnauthorizedRequest(resultCollection[a])
          /\ isPassing(resultCollection[b])
          /\ parseAndCheckResponse(b, resultCollection[b].content) = Nil
          /\ procErr = resultCollection[a].err
          /\ procErr # Nil

\* what the claims about HTTPSFindSubclusterOp.processResult speak of
HasName(list, name) == \E i \in 1..Len(list) : list[i].SCName = name
HasDefault(list) == \E i \in 1..Len(list) : list[i].IsDefault
DefaultNames(list) == {list[i].SCName : i \in {j \in 1..Len(list) : list[j].IsDefault}}
\* the traversal of the call comes to position k: no host before it was
\* unauthorized or passing
FindReaches(k) ==
    \A j \in 1..(k - 1) :
        /\ ~isUnauthorizedRequest(findOp.results[findReturn[1].order[j]])
        /\ ~isPassing(findOp.results[findReturn[1].order[j]])
\* the traversal comes to position k and parses the list of the host there
FindParses(k) ==
    /\ k \in 1..Len(findReturn[1].order)
    /\ FindReaches(k)
    /\ ~isUnauthorizedRequest(findOp.results[findReturn[1].order[k]])
    /\ isPassing(findOp.results[findReturn[1].order[k]])
    /\ parseAndCheckResponse(findReturn[1].order[k], findOp.results[findReturn[1].order[k]].content) = Nil
FindParsed(k) == DecodeSCList(findOp.results[findReturn[1].order[k]].content)

\* C21: when every host of the dispatch answered 200 with the same subcluster
\* list, and the list holds the requested name and a default subcluster,
\* processResult returns nil and the context's defaultSCName is the name of the
\* default subcluster of the list.
C21_FindSubclusterSuccess ==
    (/\ findReturn # <<>>
     /\ DOMAIN findOp.results # {}
     /\ \A h \in DOMAIN findOp.results :
           /\ isSuccess(findOp.results[h])
           /\ findOp.results[h].err = Nil
           /\ DecodeJSON(findOp.results[h].content)
     /\ \A a, b \in DOMAIN findOp.results :
           DecodeSCList(findOp.results[a].content) = DecodeSCList(findOp.results[b].content)
     /\ \A h \in DOMAIN findOp.results :
           /\ HasName(DecodeSCList(findOp.results[h].content), findOp.scName)
           /\ HasDefault(DecodeSCList(findOp.results[h].content))) =>
        /\ findReturn[1].err = Nil
        /\ \A h \in DOMAIN findOp.results :
              DefaultNames(DecodeSCList(findOp.results[h].content)) = {findReturn[1].defaultSCName}

\* two hosts answered with the list whose default subcluster is sc1, sc2 was
\* asked for, and the context held another default name before
C21_Witness ==
    /\ findReturn # <<>>
    /\ findOp.scName = "sc2"
    /\ findOp.defaultSCName = "old_default"
    /\ Cardinality(DOMAIN findOp.results) = MaxHosts
    /\ \A h \in DOMAIN findOp.results :
          /\ isSuccess(findOp.results[h])
          /\ findOp.results[h].content = OtherBody(h)
    /\ findReturn[1].err = Nil
    /\ findReturn[1].defaultSCName = "sc1"

\* the result collection of the call with the results of the hosts after
\* position k replaced by what `later` says they answered
FindWithLater(k, later) ==
    [h \in DOMAIN findOp.results |->
        IF h \in DOMAIN later THEN generateResult(h, later[h]) ELSE findOp.results[h]]
\* nothing the hosts after position k answered changes what the call returns
FindIgnoresAfter(k) ==
    \A later \in [{findReturn[1].order[j] : j \in (k + 1)..Len(findReturn[1].order)}
                     -> UNION {FindResponses(h) : h \in Hosts}] :
        LET r == findSubclusterProcessResult(findReturn[1].order, FindWithLater(k, later),
                     findOp.defaultSCName, findOp.scName, findOp.ignoreNotFound)
        IN r.err = findReturn[1].err /\ r.defaultSCName = findReturn[1].defaultSCName
\* position k holds the first passing host of the traversal
FindFirstPassing(k) ==
    /\ k \in 1..Len(findReturn[1].order)
    /\ isPassing(findOp.results[findReturn[1].order[k]])
    /\ \A j \in 1..(k - 1) : ~isPassing(findOp.results[findReturn[1].order[j]])
    /\ parseAndCheckResponse(findReturn[1].order[k], findOp.results[findReturn[1].order[k]].content) = Nil

\* C22 as the specification states it: with a name and ignoreNotFound false,
\* when the list of the first passing host of the traversal lacks the name,
\* processResult returns the "does not exist" error and no later host's
\* response matters.
C22_NotFoundAtFirstPassing ==
    (findReturn # <<>> /\ findOp.scName # "" /\ ~findOp.ignoreNotFound) =>
        \A k \in 1..Len(findReturn[1].order) :
            (FindFirstPassing(k) /\ ~HasName(FindParsed(k), findOp.scName)) =>
                /\ OpErr("subclusterNotFound") \subseteq findReturn[1].err
                /\ FindIgnoresAfter(k)

\* C22, amended: the same when no host that the traversal met before the
\* first passing one was unauthorized, so that the traversal comes to it.
C22_NotFoundWhenParsed ==
    (findReturn # <<>> /\ findOp.scName # "" /\ ~findOp.ignoreNotFound) =>
        \A k \in 1..Len(findReturn[1].order) :
            (FindParses(k) /\ ~HasName(FindParsed(k), findOp.scName)) =>
                /\ OpErr("subclusterNotFound") \subseteq findReturn[1].err
                /\ FindIgnoresAfter(k)

\* sc2 was asked for, the first host of the traversal answered with a list
\* without it and the call failed, although the host after it had sc2
C22_Witness ==
    /\ findReturn # <<>>
    /\ findOp.scName = "sc2"
    /\ ~findOp.ignoreNotFound
    /\ Len(findReturn[1].order) = MaxHosts
    /\ FindParses(1)
    /\ FindParsed(1) = GoodSCList
    /\ isPassing(findOp.results[findReturn[1].order[2]])
    /\ DecodeSCList(findOp.results[findReturn[1].order[2]].content) = OtherSCList
    /\ findReturn[1].err = OpErr("subclusterNotFound")

\* C23: built with ignoreNotFound true, or with an empty name, processResult
\* never returns the "does not exist" error, whatever the hosts answered; when
\* the list it parses has no default subcluster it returns the "no default
\* subcluster" error all the same.
C23_IgnoreNotFound ==
    (findReturn # <<>> /\ (findOp.ignoreNotFound \/ findOp.scName = "")) =>
        /\ \A e \in findReturn[1].err : e.kind # "subclusterNotFound"
        /\ \A k \in 1..Len(findReturn[1].order) :
              (FindParses(k) /\ ~HasDefault(FindParsed(k))) =>
                  /\ findReturn[1].err # Nil
                  /\ OpErr("noDefaultSubcluster") \subseteq findReturn[1].err

\* sc2 was asked for with ignoreNotFound true, the parsed list has no sc2 and
\* the call returned nil with the default name stored
C23_Witness ==
    /\ findReturn # <<>>
    /\ findOp.ignoreNotFound
    /\ findOp.scName = "sc2"
    /\ FindParses(1)
    /\ ~HasName(FindParsed(1), "sc2")
    /\ findReturn[1].err = Nil
    /\ findReturn[1].defaultSCName = "default_subcluster"

\* C24: once a catalog-bootstrap operation is prepared, the request it holds
\* for each of its hosts that has an entry in the context's networkProfiles
\* (stored by an earlier network-profile operation) carries that entry's
\* broadcast value as broadcast_addr, and stays so through the dispatch.
C24_BroadcastFromContext ==
    (op.kind = BootstrapCatalogOp /\ pc \in {"prepared", "dispatching"}) =>
        \A host \in op.hosts \cap DOMAIN networkProfiles :
            /\ host \in DOMAIN requestCollection
            /\ Len(requestCollection[host].RequestData) = 1
            /\ requestCollection[host].RequestData[1].Host = host
            /\ requestCollection[host].RequestData[1].BroadcastAddr = networkProfiles[host].Broadcast

\* the bootstrap requests of all hosts are on the wire, each with the broadcast
\* address that the network-profile operation before it stored for that host
C24_Witness ==
    /\ op.kind = BootstrapCatalogOp
    /\ pc = "dispatching"
    /\ inflight = Hosts
    /\ op.hosts = Hosts
    /\ DOMAIN networkProfiles = Hosts
    /\ \A host \in Hosts :
          /\ networkProfiles[host] = GoodProfile(host)
          /\ requestCollection[host].RequestData[1].BroadcastAddr = <<"bcast", host>>

\* a field of the profile is missing or empty
HasEmptyField(profile) ==
    \/ profile.Name = ""
    \/ profile.Address = ""
    \/ profile.Subnet = ""
    \/ profile.Netmask = ""
    \/ profile.Broadcast = <<>>
\* host h passed and its payload decodes to a profile with an empty field
IncompletePayload(h) ==
    /\ isPassing(profileOp.results[h])
    /\ DecodeJSON(profileOp.results[h].content)
    /\ HasEmptyField(DecodeProfile(profileOp.results[h].content))

\* C25: when a passing host's payload decodes to a profile with one of its
\* five fields missing or empty, processResult of NMANetworkProfileOp returns
\* an error, the context's networkProfiles is what it was before the call,
\* and no entry of it has an empty field.
C25_IncompleteIsParseFailure ==
    (profileReturn # <<>> /\ \E h \in DOMAIN profileOp.results : IncompletePayload(h)) =>
        /\ profileReturn[1].err # Nil
        /\ profileReturn[1].networkProfiles = profileOp.networkProfiles
        /\ \A h \in DOMAIN profileReturn[1].networkProfiles :
              ~HasEmptyField(profileReturn[1].networkProfiles[h])

\* the first host of the traversal sent a full profile, the next one a profile
\* without its netmask: the call failed on that host and stored nothing
C25_Witness ==
    /\ profileReturn # <<>>
    /\ Len(profileReturn[1].order) = MaxHosts
    /\ profileOp.results[profileReturn[1].order[1]].content = GoodBody(profileReturn[1].order[1])
    /\ isPassing(profileOp.results[profileReturn[1].order[1]])
    /\ profileOp.results[profileReturn[1].order[2]].content
          = MissingFieldBody("netmask", profileReturn[1].order[2])
    /\ isPassing(profileOp.results[profileReturn[1].order[2]])
    /\ profileReturn[1].err = HostErr(profileReturn[1].order[2], "missingField")
    /\ profileReturn[1].networkProfiles = EmptyMap

\* C26: a sensitiveFields value that maskSensitiveInfo was called on twice or
\* more is the value one call makes of the original, and a further call would
\* leave it as it is.
C26_MaskIdempotent ==
    (maskCalls >= 2) =>
        /\ sensitive = maskSensitiveInfo(unmasked)
        /\ maskSensitiveInfo(sensitive) = sensitive

\* masked twice: a value with set credentials, a deny-listed parameter and an
\* ordinary one
C26_Witness ==
    /\ maskCalls = 2
    /\ unmasked.DBPassword = "dbpassword"
    /\ DOMAIN unmasked.Parameters = {"AWSAuth", "kerberosrealm"}
    /\ unmasked.Parameters["AWSAuth"] = "value"
    /\ sensitive.Parameters["AWSAuth"] = maskedValue
    /\ sensitive.Parameters["kerberosrealm"] = "value"

\* the keys of ParameterKeys that are a deny-listed name in some letter case
DenyListedKeys == {"AWSAuth", "awssessiontoken", "GCSAUTH", "AzureStorageCredentials"}

\* C27: after maskSensitiveInfo the three credential fields are the
\* placeholder, every parameter under a deny-listed key (in any letter case) is
\* the placeholder, every other parameter has the value it had, and the
\* parameter keys are the ones there were.
C27_MaskFrame ==
    (maskCalls >= 1) =>
        /\ sensitive.DBPassword = maskedValue
        /\ sensitive.AWSAccessKeyID = maskedValue
        /\ sensitive.AWSSecretAccessKey = maskedValue
        /\ DOMAIN sensitive.Parameters = DOMAIN unmasked.Parameters
        /\ \A key \in DOMAIN unmasked.Parameters :
              sensitive.Parameters[key] =
                  IF key \in DenyListedKeys THEN maskedValue ELSE unmasked.Parameters[key]

\* masked once: a deny-listed key in capitals beside a key that only starts
\* like a deny-listed one
C27_Witness ==
    /\ maskCalls = 1
    /\ DOMAIN unmasked.Parameters = {"GCSAUTH", "AWSAuthority"}
    /\ unmasked.Parameters["GCSAUTH"] = "value"
    /\ unmasked.Parameters["AWSAuthority"] = "value"
    /\ sensitive.Parameters["GCSAUTH"] = maskedValue
    /\ sensitive.Parameters["AWSAuthority"] = "value"
    /\ sensitive.DBPassword = maskedValue
    /\ unmasked.DBPassword = ""

\* C28: the context's networkProfiles changes only in a step that is
\* processResult of an NMANetworkProfileOp, and its defaultSCName only in a
\* step that is processResult of an HTTPSFindSubclusterOp: no prepare or
\* finalize, no other operation's processResult and no other step writes a
\* data slot of the context, and each of the two writes its own slot only.
C28_ContextFrame ==
    [][LET processes == (log' = Append(log, <<idx, "processResult">>))
       IN /\ (networkProfiles' # networkProfiles) =>
                 (processes /\ op.kind = NetworkProfileOp /\ defaultSCName' = defaultSCName)
          /\ (defaultSCName' # defaultSCName) =>
                 (processes /\ op.kind = FindSubclusterOp /\ networkProfiles' = networkProfiles)
          /\ (log' # log /\ LastCall'[2] \in {"prepare", "finalize"}) =>
                 (networkProfiles' = networkProfiles /\ defaultSCName' = defaultSCName)
          /\ (processes /\ op.kind \in {DeleteDirectoriesOp, GetScrutinizeTarOp}) =>
                 (networkProfiles' = networkProfiles /\ defaultSCName' = defaultSCName)
      ]_vars

\* an HTTPSFindSubclusterOp has stored the default subcluster name and the
\* profiles that the NMANetworkProfileOp before it stored are still there
C28_Witness ==
    /\ idx = 2
    /\ op.kind = FindSubclusterOp
    /\ LastCall = <<2, "finalize">>
    /\ defaultSCName = "default_subcluster"
    /\ DOMAIN networkProfiles = Hosts
    /\ \A h \in Hosts : networkProfiles[h] = GoodProfile(h)

\* C29: when prepare of an operation has set up the pool (setup, or
\* setupForDownload for the scrutinize operation), the pool's connection keys
\* are exactly the hosts of that operation, whatever operations were set up
\* before, and each adapter's host is its key.
C29_PoolBuiltFresh ==
    (pc = "prepared") =>
        /\ DOMAIN connections = op.hosts
        /\ \A host \in DOMAIN connections : connections[host].host = host

\* C30: at every moment the request on the wire for a host goes through the
\* pool's adapter of that host; no adapter carries two requests on the wire,
\* no two hosts of the pool have the same adapter, and requests are on the
\* wire only inside one dispatch: the next dispatch starts when none is left.
C30_AdapterExclusive ==
    /\ inflight \subseteq DOMAIN connections
    /\ inflight \subseteq DOMAIN requestCollection
    /\ \A a \in DOMAIN connections : \A b \in DOMAIN connections :
          (a # b) => (connections[a] # connections[b] /\ connections[a].host # connections[b].host)
    /\ \A a \in DOMAIN connections :
          Cardinality({h \in inflight : connections[h] = connections[a]}) <= 1
    /\ (inflight # {}) => (pc = "dispatching" /\ LastCall = <<idx, "sendRequest">>)
    /\ (pc # "dispatching") => (inflight = {})

\* the second dispatch of a pipeline has a request on the wire for every host,
\* each through its own adapter, after a first dispatch to the same hosts
C30_Witness ==
    /\ pc = "dispatching"
    /\ idx = 2
    /\ inflight = Hosts
    /\ Called(1, "processResult")
    /\ \A h \in Hosts : connections[h].host = h

\* C31: for the results of one dispatch, processResult of
\* HTTPSFindSubclusterOp returns nil in every traversal order of the result
\* map or an error in every one, and leaves the same defaultSCName in every one.
C31_FindOrderIndependent ==
    (findReturn # <<>>) =>
        \A order \in Orders(DOMAIN findOp.results) :
            LET r == findSubclusterProcessResult(order, findOp.results, findOp.defaultSCName,
                                                 findOp.scName, findOp.ignoreNotFound)
            IN /\ (r.err = Nil) <=> (findReturn[1].err = Nil)
               /\ r.defaultSCName = findReturn[1].defaultSCName

\* the payload of passing host h does not parse to a full profile
ProfileParseFails(h) ==
    /\ isPassing(profileOp.results[h])
    /\ \/ ~DecodeJSON(profileOp.results[h].content)
       \/ HasEmptyField(DecodeProfile(profileOp.results[h].content))

\* C32: when no passing host's payload fails to parse, processResult of
\* NMANetworkProfileOp leaves in the context's networkProfiles a map whose keys
\* are exactly the passing hosts of this dispatch, each with its own parsed
\* profile (nothing of what the slot held before remains), and returns an
\* error iff some host failed; when a payload fails to parse it returns an
\* error and the slot holds what it held before.
C32_ProfilesReplaced ==
    (profileReturn # <<>>) =>
        IF \E h \in DOMAIN profileOp.results : ProfileParseFails(h)
        THEN /\ profileReturn[1].err # Nil
             /\ profileReturn[1].networkProfiles = profileOp.networkProfiles
        ELSE /\ DOMAIN profileReturn[1].networkProfiles
                  = {h \in DOMAIN profileOp.results : isPassing(profileOp.results[h])}
             /\ \A h \in DOMAIN profileReturn[1].networkProfiles :
                   profileReturn[1].networkProfiles[h] = DecodeProfile(profileOp.results[h].content)
             /\ (profileReturn[1].err # Nil)
                  <=> (\E h \in DOMAIN profileOp.results : ~isPassing(profileOp.results[h]))

\* the context held the profiles of all hosts; in this dispatch one host
\* passed and another failed: only the passing host's profile is left and an
\* error is returned
C32_Witness ==
    /\ profileReturn # <<>>
    /\ DOMAIN profileOp.networkProfiles = Hosts
    /\ Cardinality(DOMAIN profileOp.results) = 2
    /\ \E a \in DOMAIN profileOp.results : \E b \in DOMAIN profileOp.results :
          /\ isPassing(profileOp.results[a])
          /\ ~ProfileParseFails(a)
          /\ ~isPassing(profileOp.results[b])
          /\ DOMAIN profileReturn[1].networkProfiles = {a}
          /\ profileReturn[1].err = profileOp.results[b].err

\* C33: after processResult of NMAGetScrutinizeTarOp the error it returned
\* joins exactly the errors of the hosts that failed with anything but status
\* 500 (another status, or a transport error), one of each such host and of
\* no other, whatever the traversal order; so it is nil iff every failed host
\* answered 500.
C33_InternalErrorTolerated ==
    (Processed /\ op.kind = GetScrutinizeTarOp) =>
        /\ procErr = UNION {resultCollection[h].err :
                               h \in {x \in DOMAIN resultCollection :
                                          Failing(x) /\ resultCollection[x].statusCode # InternalErrorCode}}
        /\ \A h \in DOMAIN resultCollection :
              (Failing(h) /\ resultCollection[h].statusCode # InternalErrorCode)
                  => Cardinality({e \in procErr : e.host = h}) = 1
        /\ (procErr = Nil) <=>
              (\A h \in DOMAIN resultCollection :
                  Failing(h) => resultCollection[h].statusCode = InternalErrorCode)

\* a tarball download where one host answered 500 and the other passed: nil
C33_Witness ==
    /\ Processed
    /\ op.kind = GetScrutinizeTarOp
    /\ procErr = Nil
    /\ \E a \in DOMAIN resultCollection : \E b \in DOMAIN resultCollection :
          /\ Failing(a)
          /\ resultCollection[a].statusCode = InternalErrorCode
          /\ ~Failing(b)

\* C34: once a catalog-bootstrap operation is prepared, the caller's
\* configuration parameters are what the caller supplied, the request data the
\* operation holds for each of its hosts carries the caller's password and
\* access keys and refers to the caller's parameters (an entry made for a host
\* the operation was not given carries no credential at all), and the copies
\* updateRequestBody makes for the log carry the placeholder in their place.
C34_PrepareKeepsCallerData ==
    (op.kind = BootstrapCatalogOp /\ idx >= 1) =>
        /\ configParams = OptionsConfigurationParameters
        /\ \A h \in DOMAIN hostRequestBodyMap :
              LET before == IF h \in op.hosts THEN setupRequestBody(op.hosts)[h] ELSE ZeroRequestData
              IN /\ hostRequestBodyMap[h].DBPassword = before.DBPassword
                 /\ hostRequestBodyMap[h].AWSAccessKeyID = before.AWSAccessKeyID
                 /\ hostRequestBodyMap[h].AWSSecretAccessKey = before.AWSSecretAccessKey
                 /\ hostRequestBodyMap[h].Parameters = before.Parameters
                 /\ Deref(hostRequestBodyMap[h].Parameters, configParams)
                       = Deref(before.Parameters, OptionsConfigurationParameters)
        /\ (pc = "prepared") =>
              \A order \in Orders(DOMAIN networkProfiles) :
                 LET u == updateRequestBody(order, networkProfiles, setupRequestBody(op.hosts),
                                            OptionsConfigurationParameters)
                 IN /\ DOMAIN u.maskedRequestBodyMap = DOMAIN networkProfiles
                    /\ \A h \in DOMAIN u.maskedRequestBodyMap :
                          /\ u.maskedRequestBodyMap[h].DBPassword = maskedValue
                          /\ u.maskedRequestBodyMap[h].AWSAccessKeyID = maskedValue
                          /\ u.maskedRequestBodyMap[h].AWSSecretAccessKey = maskedValue
                          /\ u.hostRequestBodyMap[h] = hostRequestBodyMap[h]

\* a bootstrap over all hosts is prepared after their profiles were stored:
\* the operation's request data and the caller's map hold the credentials
C34_Witness ==
    /\ op.kind = BootstrapCatalogOp
    /\ pc = "prepared"
    /\ op.hosts = Hosts
    /\ DOMAIN networkProfiles = Hosts
    /\ DOMAIN hostRequestBodyMap = Hosts
    /\ \A h \in Hosts : hostRequestBodyMap[h].DBPassword = OptionsPassword
    /\ configParams["AWSAuth"] = "id:secret"

====
